---- MODULE Spec2Model ----
(***************************************************************************)
(* Model of the RP2xxx-GEEK LCD status display (src/srcsim/lcd.c): the     *)
(* refresh task lcd_task running on core 1, the control operations called  *)
(* from core 0, and the variables the two cores share.                     *)
(*                                                                         *)
(* Every access of lcd_task to a variable shared with core 0 is one step   *)
(* of the model, so that core 0 can run between any two of them.  An       *)
(* operation of core 0 that touches one shared variable only is one step.  *)
(***************************************************************************)
EXTENDS Integers, Sequences, FiniteSets, TLC

(***************************************************************************)
(* Bounds of the model.                                                    *)
(***************************************************************************)
\* the refresh task starts at most MaxFrames frames while core 0 is running
MaxFrames == 2
\* the same, in the specification that adds the RGB LED colour
MaxChanFrames == 1
\* length of the longest run of consecutive lcd_status_next requests
MaxNext == 6
\* LCD_REFRESH, the number of frames per second; the model runs with a
\* small rate
LCD_REFRESH == 2
\* lcd_update_drive is called during MaxAccessFrames frames, not later
MaxAccessFrames == 2
\* the refresh task starts at most MaxCountFrames frames in the
\* specification of the frame counter
MaxCountFrames == 1
\* the refresh task starts at most MaxPaceFrames frames in the
\* specification of the frame period
MaxPaceFrames == 3

\* frames lcd_task draws while the CPU variant changes
MaxRegFrames == 4

\* WAVESHARE_GEEK_LCD_WIDTH and WAVESHARE_GEEK_LCD_HEIGHT, the size of the
\* display in pixels; the model runs with a small display
WAVESHARE_GEEK_LCD_WIDTH == 4
WAVESHARE_GEEK_LCD_HEIGHT == 2

\* the columns of the two pixel blocks of the memory panel (128 and 96 in
\* lcd.c 614, 628) and their rows (128, lines 616, 630); the model runs
\* with small blocks
Bnk0Cols == 2
Bnk1Cols == 1
MemRows == 2
\* calls of lcd_draw_memory(false) modelled
MaxMemFrames == 2
\* calls of mount_disk modelled
MaxMounts == 4

\* Paint.Width and Paint.Height, the size of the image in pixels; the
\* model runs with a small image
PaintWidth == 4
PaintHeight == 3

\* the refresh task starts at most MaxPortFrames frames in the
\* specification of the I/O port flags
MaxPortFrames == 3

(***************************************************************************)
(* Program constants.                                                      *)
(***************************************************************************)
\* lcd_backlight = 90 in lcd_init
DEFAULT_BRIGHTNESS == 90
\* width of lcd_backlight (uint8_t)
UINT8_MOD == 256
\* lcd_frame_cnt is a uint32_t, kept as its two 16-bit halves <<high, low>>
UINT16_MOD == 65536

\* x + 1 for a frame counter declared uint16_t
U32_Inc_uint16(x) == <<0, (x[2] + 1) % UINT16_MOD>>

\* x + 1 in uint32_t arithmetic
U32_Inc(x) ==
    IF x[2] + 1 = UINT16_MOD
    THEN <<(x[1] + 1) % UINT16_MOD, 0>>
    ELSE <<x[1], x[2] + 1>>

\* the uint32_t x as a number, for x below 2^16
U32_Low(x) == IF x[1] = 0 THEN x[2] ELSE UINT16_MOD

\* the null function pointer: the request to finish the refresh task
NULL == "NULL"

\* the status panels, in the order lcd_status_next steps through them
\* (SIMPLEPANEL and IOPANEL are defined in sim.h)
StatusPanels ==
    {"lcd_draw_cpu_reg", "lcd_draw_panel", "lcd_draw_drives",
     "lcd_draw_ports", "lcd_draw_memory"}

\* draw functions core 0 hands to lcd_custom_disp (picosim.c), and NULL
CustomFuncs == {"lcd_draw_banner", NULL}

\* the draw functions among them
Banners == CustomFuncs \ {NULL}

\* every value lcd_draw_func can hold
DrawFuncs == StatusPanels \cup CustomFuncs \cup {"lcd_draw_empty"}

\* the selectors of lcd_status_disp; "OTHER" is any unrecognised value
Selectors ==
    {"LCD_STATUS_CURRENT", "LCD_STATUS_REGISTERS", "LCD_STATUS_PANEL",
     "LCD_STATUS_DRIVES", "LCD_STATUS_PORTS", "LCD_STATUS_MEMORY", "OTHER"}

\* arguments of lcd_brightness
Brightness == {40, DEFAULT_BRIGHTNESS}

\* RGB LED colours, as the set of their components
C_BLACK == {}
C_RED == {"R"}
C_GREEN == {"G"}
LedColors == {C_BLACK, C_RED}

\* the flags of port_flags[] in the order lcd_draw_ports reads them: the
\* in flag, then the out flag, of the first and of the last port
PortOrder == <<"in_00", "out_00", "in_FF", "out_FF">>
PortFlags == {PortOrder[i] : i \in 1..Len(PortOrder)}

VARIABLES
    \* shared between the cores (lcd.c 42-46, 51)
    lcd_draw_func,      \* current LCD draw func (W0 R1)
    lcd_backlight,      \* LCD backlight intensity (W0 R1)
    lcd_rotated,        \* LCD rotation status (W0 R1)
    lcd_task_done,      \* core 1 LCD task finished (R0 W1)
    lcd_led_color,      \* RGB LED color (W0 R1)
    lcd_frame_cnt,      \* frame counter
    \* core 0 only (lcd.c 48-49, 65)
    lcd_status_func,    \* current LCD status panel
    lcd_shows_status,   \* LCD shows status panel
    led_color,          \* RGB LED color (core 0)
    main_pc,            \* where core 0 is: "run", or inside lcd_exit
    \* locals of lcd_task (lcd.c 105-109)
    task_pc,            \* where core 1 is in lcd_task
    first,
    rotated,
    backlight,
    draw_func,
    \* the LCD controller, as the device calls of lcd_task left it
    dev_state,          \* "off", "on" (lcd_dev_init), "exit" (lcd_dev_exit)
    dev_backlight,      \* last level given to lcd_dev_init/lcd_dev_backlight
    dev_rotated,        \* last value given to lcd_dev_rotation
    \* history of the current iteration of lcd_task
    calls,              \* number of calls made in this iteration, by callee
    last_drawn,         \* draw function of the latest (*draw_func)(first)
    last_first,         \* its argument
    sentinel_seen,      \* the exit check has read NULL
    written,            \* shared fields core 0 wrote since the iteration began
    \* history of the panel requests of core 0
    run_len,            \* consecutive lcd_status_next requests so far
    run_start,          \* lcd_status_func when that run began
    hist,               \* the latest panel request and what preceded it
    \* the disk drive status (lcd.c 814-823), one entry of lcd_drives[]
    lcd_drives,         \* written by lcd_update_drive and lcd_draw_drives
    upd,                \* where core 0 is in lcd_update_drive, its arguments
    drive_hist,         \* the latest access and what was drawn since
    \* the I/O port access flags (port_flags[256], read at lcd.c 996-1018)
    port_flags,         \* set by core 0, cleared by lcd_draw_ports
    port_pos,           \* number of flags lcd_draw_ports has drawn so far
    port_hist,          \* per flag: set by core 0, shown, or clear
    \* the time in lcd_task (lcd.c 122, 156-159)
    elapsed,            \* microseconds since t = get_absolute_time()
    pace,               \* d and the sleep of the latest iterations
    \* the info line (lcd.c 258-335)
    last_upd,           \* static uint32_t last_upd of lcd_draw_info
    info,               \* what the latest calls of lcd_draw_info drew
    \* the registers panel (lcd.c 450-576)
    cpu,                \* the CPU variant the emulator runs (written by core 0)
    cpu_type,           \* static int cpu_type of lcd_draw_cpu_reg
    grid,               \* static draw_grid_t grid of lcd_draw_cpu_reg
    reg_pc,             \* where lcd_task is in lcd_draw_cpu_reg
    reg_hist,           \* what the latest call of lcd_draw_cpu_reg did
    cells,              \* the grid cells the latest redraw drew into
    \* the image Paint_DrawChar draws into (GUI_DrawChar.c)
    paint,              \* the pixels, and the arguments of the latest call
    \* the pixmap lcd_task draws into (lcd.c 23-39)
    lcd_pixmap,         \* depth, width, height, stride, size of pixmap_bits
    \* the memory panel (lcd_draw_memory, lcd.c 590-639)
    mem,                \* the banks as read and the pixels of the latest
                        \* two calls
    \* the drive table of the memory layer (memsim.c 31, 131-157)
    disks,              \* disks[drive]: path of the mounted image, <<>> if none
    mount_hist          \* ghost: the latest mount_disk call and its outcome

chan_vars == <<lcd_draw_func, lcd_backlight, lcd_rotated, lcd_led_color>>
core0_vars == <<lcd_status_func, lcd_shows_status, led_color, main_pc>>
task_vars == <<task_pc, first, rotated, backlight, draw_func>>
dev_vars == <<dev_state, dev_backlight, dev_rotated>>
iter_vars == <<calls, last_drawn, last_first, sentinel_seen>>
panel_hist == <<run_len, run_start, hist>>
port_vars == <<port_flags, port_pos, port_hist>>
pace_vars == <<elapsed, pace>>
info_vars == <<last_upd, info>>
reg_vars == <<cpu, cpu_type, grid, reg_pc, reg_hist, cells>>
pix_vars == <<paint, lcd_pixmap, mem>>
disk_vars == <<disks, mount_hist>>
tail_vars == <<pace_vars, info_vars, reg_vars, pix_vars, disk_vars>>
ext_vars == <<lcd_drives, upd, drive_hist, port_vars, tail_vars>>
vars ==
    <<chan_vars, lcd_task_done, lcd_frame_cnt, core0_vars, task_vars,
      dev_vars, iter_vars, written, panel_hist, ext_vars>>

\* static draw_grid_t grid before the first draw_setup_grid
NoGrid == [font |-> NULL, rows |-> 0]

\* no register redraw yet
NoRedraw ==
    [table |-> NULL, i |-> 0, v |-> 0, file |-> <<>>, done |-> FALSE,
     drawn |-> {}]

\* the fonts of the model, each with the glyphs of ' ' and '!': one pixel;
\* 3 x 2 with bits set beyond the width; 8 x 1; 9 x 2 with two bytes a row
GlyphFonts ==
    {[Width |-> 1, Height |-> 1, table |-> <<0, 128>>],
     [Width |-> 3, Height |-> 2, table |-> <<0, 0, 191, 64>>],
     [Width |-> 8, Height |-> 1, table |-> <<0, 165>>],
     [Width |-> 9, Height |-> 2, table |-> <<0, 0, 0, 0, 165, 128, 90, 0>>],
     [Width |-> 16, Height |-> 1, table |-> <<0, 0, 165, 90>>]}

\* the pixels Paint_SetPixel can be called for: those of the image and
\* those a character drawn at its right or lower edge reaches beyond it
PaintPlane == (0..(PaintWidth + 16)) \X (0..(PaintHeight + 2))

\* the image before anything was drawn: every pixel has colour 0
NoPaint ==
    [done |-> FALSE, rejected |-> FALSE, X |-> 0, Y |-> 0, ch |-> 0,
     font |-> <<>>, fg |-> 0, bg |-> 0, junk |-> 0,
     image |-> [q \in PaintPlane |-> 0], offset |-> 0, rows |-> <<>>]

\* no call of lcd_draw_memory yet; the banks hold zeros
NoRender == [kind |-> "none", bnk0 |-> <<>>, bnk1 |-> <<>>, pix |-> <<>>]

NoMem ==
    [kind |-> "none",
     bnk0 |-> [i \in 1..(Bnk0Cols * MemRows) |-> <<0, 0>>],
     bnk1 |-> [i \in 1..(Bnk1Cols * MemRows) |-> <<0, 0>>],
     pix |-> <<>>, lines |-> {}, frames |-> 0, prev |-> NoRender]

\* char disks[4][22] (memsim.c 31): four drives, none with an image; a path
\* is the sequence of the pieces mount_disk concatenates
MountDrives == 0..3
NoDisks == [i \in MountDrives |-> <<>>]

\* no call of mount_disk yet
NoMount ==
    [calls |-> 0, drive |-> 0, name |-> "", opened |-> FALSE,
     result |-> "none", before |-> NoDisks]

NoCalls == [backlight |-> 0, rotation |-> 0, draw |-> 0, send |-> 0, count |-> 0]

(***************************************************************************)
(* lcd_init: the state when multicore_launch_core1(lcd_task) has been      *)
(* called and neither core has taken a further step.                       *)
(***************************************************************************)
lcd_init ==
    /\ lcd_draw_func = "lcd_draw_empty"
    /\ lcd_backlight = DEFAULT_BRIGHTNESS
    /\ lcd_rotated = FALSE
    /\ lcd_led_color = C_BLACK
    /\ lcd_task_done = FALSE
    /\ lcd_status_func = "lcd_draw_cpu_reg"
    /\ lcd_shows_status = FALSE
    /\ lcd_frame_cnt = <<0, 0>>
    /\ led_color = C_BLACK
    /\ main_pc = "run"
    /\ task_pc = "init"
    /\ first = FALSE
    /\ rotated = FALSE
    /\ backlight = 0
    /\ draw_func = NULL
    /\ dev_state = "off"
    /\ dev_backlight = 0
    /\ dev_rotated = FALSE
    /\ calls = NoCalls
    /\ last_drawn = NULL
    /\ last_first = FALSE
    /\ sentinel_seen = FALSE
    /\ written = {}
    /\ run_len = 0
    /\ run_start = "lcd_draw_cpu_reg"
    /\ hist = [op |-> "init", saved |-> "none", moved |-> FALSE,
               which |-> "none"]
    /\ lcd_drives = [track |-> 0, sector |-> 0, addr |-> 0, rdwr |-> FALSE,
                     active |-> FALSE, lastacc |-> <<0, 0>>]
    /\ upd = [pc |-> "idle"]
    /\ drive_hist = [accessed |-> FALSE, sector |-> 0, drawn |-> "none",
                     at |-> <<0, 0>>, blanks |-> 0, stamped |-> FALSE,
                     age |-> 0]
    /\ port_flags = [f \in PortFlags |-> FALSE]
    /\ port_pos = 0
    /\ port_hist = [f \in PortFlags |-> "clear"]
    /\ elapsed = 0
    /\ pace = [done |-> 0, d |-> 0, slept |-> 0, late_before |-> FALSE]
    /\ last_upd = <<0, 0>>
    /\ info = [kind |-> "none", before |-> "none", values |-> FALSE,
               led_drawn |-> FALSE, led |-> C_BLACK, gap |-> 0,
               gap_before |-> 0]
    /\ cpu = "Z80"
    /\ cpu_type = "0"
    /\ grid = NoGrid
    /\ reg_pc = "enter"
    /\ reg_hist = [kind |-> "none", seen |-> "0", prev |-> "0",
                   passed |-> FALSE, table |-> NULL, grid |-> NoGrid,
                   info_first |-> FALSE]
    /\ cells = NoRedraw
    /\ paint = NoPaint
    /\ mem = NoMem
    /\ disks = NoDisks
    /\ mount_hist = NoMount

\* line 24 for every depth
STRIDE_two_bytes(depth, width) == width * 2

\* lines 23-27: STRIDE for COLOR_DEPTH 12, and for any other
STRIDE(depth, width) ==
    IF depth = 12 THEN ((width + 1) \div 2) * 3 ELSE width * 2

\* lines 28-39: pixmap_bits and the initializer of lcd_pixmap, in a build
\* with COLOR_DEPTH depth
lcd_pixmap_init(depth) ==
    [depth |-> depth,
     width |-> WAVESHARE_GEEK_LCD_WIDTH,
     height |-> WAVESHARE_GEEK_LCD_HEIGHT,
     stride |-> STRIDE(depth, WAVESHARE_GEEK_LCD_WIDTH),
     bits |-> WAVESHARE_GEEK_LCD_HEIGHT
                  * STRIDE(depth, WAVESHARE_GEEK_LCD_WIDTH)]

Init == lcd_init /\ lcd_pixmap = lcd_pixmap_init(16)

\* the state after lcd_init in a build with COLOR_DEPTH 12 or 16
InitAnyDepth ==
    lcd_init /\ \E depth \in {12, 16} : lcd_pixmap = lcd_pixmap_init(depth)

(***************************************************************************)
(* Operations of core 0 (the emulation).  Each leaves the locals of        *)
(* lcd_task, the LCD controller and lcd_task_done alone.                   *)
(***************************************************************************)
core1_unchanged ==
    UNCHANGED <<lcd_task_done, lcd_frame_cnt, task_vars, dev_vars, iter_vars>>

\* void lcd_brightness(int brightness)
lcd_brightness(brightness) ==
    /\ main_pc = "run"
    /\ lcd_backlight' = brightness % UINT8_MOD
    /\ UNCHANGED <<lcd_draw_func, lcd_rotated, lcd_led_color, core0_vars>>
    /\ core1_unchanged

\* void lcd_set_rotation(bool rotated)
lcd_set_rotation(new_rotation) ==
    /\ main_pc = "run"
    /\ lcd_rotated' = new_rotation
    /\ UNCHANGED <<lcd_draw_func, lcd_backlight, lcd_led_color, core0_vars>>
    /\ core1_unchanged

\* core 0 assigns the global led_color (uint16_t led_color, "core 0")
set_led_color(color) ==
    /\ main_pc = "run"
    /\ led_color' = color
    /\ UNCHANGED <<chan_vars, lcd_status_func, lcd_shows_status, main_pc>>
    /\ core1_unchanged

\* void lcd_update_led(void)
lcd_update_led ==
    /\ main_pc = "run"
    /\ lcd_led_color' = led_color
    /\ UNCHANGED <<lcd_draw_func, lcd_backlight, lcd_rotated, core0_vars>>
    /\ core1_unchanged

\* the two assignments of lcd_custom_disp
custom_disp_body(func) ==
    /\ lcd_draw_func' = func
    /\ lcd_shows_status' = FALSE
    /\ UNCHANGED <<lcd_backlight, lcd_rotated, lcd_led_color,
                   lcd_status_func, led_color>>
    /\ core1_unchanged

\* lcd_custom_disp with the custom draw function remembered as the
\* current status panel
lcd_custom_disp_remembers(func) ==
    /\ main_pc = "run"
    /\ lcd_draw_func' = func
    /\ lcd_status_func' = func
    /\ lcd_shows_status' = FALSE
    /\ UNCHANGED <<lcd_backlight, lcd_rotated, lcd_led_color, led_color,
                   main_pc>>
    /\ core1_unchanged

\* lcd_custom_disp waiting until lcd_task has taken up the draw function
\* given before
lcd_custom_disp_handshake(func) ==
    /\ main_pc = "run"
    /\ draw_func = lcd_draw_func
    /\ custom_disp_body(func)
    /\ UNCHANGED main_pc

\* void lcd_custom_disp(lcd_func_t draw_func)
lcd_custom_disp(func) ==
    /\ main_pc = "run"
    /\ custom_disp_body(func)
    /\ UNCHANGED main_pc

\* the switch of lcd_status_disp: the panel selected by which
SelectedPanel(which, current) ==
    CASE which = "LCD_STATUS_REGISTERS" -> "lcd_draw_cpu_reg"
      [] which = "LCD_STATUS_PANEL" -> "lcd_draw_panel"
      [] which = "LCD_STATUS_DRIVES" -> "lcd_draw_drives"
      [] which = "LCD_STATUS_PORTS" -> "lcd_draw_ports"
      [] which = "LCD_STATUS_MEMORY" -> "lcd_draw_memory"
      [] OTHER -> current

\* lcd_status_disp showing the selected panel without remembering it
lcd_status_disp_not_remembered(which) ==
    /\ main_pc = "run"
    /\ lcd_draw_func' = SelectedPanel(which, lcd_status_func)
    /\ lcd_shows_status' = TRUE
    /\ UNCHANGED <<lcd_backlight, lcd_rotated, lcd_led_color,
                   lcd_status_func, led_color, main_pc>>
    /\ core1_unchanged

\* void lcd_status_disp(int which)
lcd_status_disp(which) ==
    /\ main_pc = "run"
    /\ lcd_status_func' = SelectedPanel(which, lcd_status_func)
    /\ lcd_draw_func' = lcd_status_func'
    /\ lcd_shows_status' = TRUE
    /\ UNCHANGED <<lcd_backlight, lcd_rotated, lcd_led_color, led_color,
                   main_pc>>
    /\ core1_unchanged

\* the chain of lcd_status_next as compiled without SIMPLEPANEL
NextPanel_no_simplepanel(func) ==
    IF func = "lcd_draw_cpu_reg" THEN "lcd_draw_drives"
    ELSE IF func = "lcd_draw_drives" THEN "lcd_draw_ports"
    ELSE IF func = "lcd_draw_ports" THEN "lcd_draw_memory"
    ELSE "lcd_draw_cpu_reg"

\* the if/else chain of lcd_status_next: the panel after func
NextPanel(func) ==
    IF func = "lcd_draw_cpu_reg" THEN "lcd_draw_panel"
    ELSE IF func = "lcd_draw_panel" THEN "lcd_draw_drives"
    ELSE IF func = "lcd_draw_drives" THEN "lcd_draw_ports"
    ELSE IF func = "lcd_draw_ports" THEN "lcd_draw_memory"
    ELSE "lcd_draw_cpu_reg"

\* lcd_status_next without lines 241-242
lcd_status_next_keeps_shown ==
    /\ main_pc = "run"
    /\ lcd_status_func' = NextPanel(lcd_status_func)
    /\ UNCHANGED <<lcd_draw_func, lcd_backlight, lcd_rotated, lcd_led_color,
                   lcd_shows_status, led_color, main_pc>>
    /\ core1_unchanged

\* lcd_status_next without the test of line 241
lcd_status_next_always_shows ==
    /\ main_pc = "run"
    /\ lcd_status_func' = NextPanel(lcd_status_func)
    /\ lcd_draw_func' = lcd_status_func'
    /\ UNCHANGED <<lcd_backlight, lcd_rotated, lcd_led_color,
                   lcd_shows_status, led_color, main_pc>>
    /\ core1_unchanged

\* void lcd_status_next(void)
lcd_status_next ==
    /\ main_pc = "run"
    /\ lcd_status_func' = NextPanel(lcd_status_func)
    /\ lcd_draw_func' =
           IF lcd_shows_status THEN lcd_status_func' ELSE lcd_draw_func
    /\ UNCHANGED <<lcd_backlight, lcd_rotated, lcd_led_color,
                   lcd_shows_status, led_color, main_pc>>
    /\ core1_unchanged

\* lcd_exit, line 91: lcd_custom_disp(NULL)
lcd_exit_request ==
    /\ main_pc = "run"
    /\ custom_disp_body(NULL)
    /\ main_pc' = "poll"

\* lcd_exit, line 94: while (!lcd_task_done)
lcd_exit_poll ==
    /\ main_pc = "poll"
    /\ main_pc' = IF lcd_task_done THEN "reset" ELSE "sleep"
    /\ UNCHANGED <<chan_vars, lcd_status_func, lcd_shows_status, led_color>>
    /\ core1_unchanged

\* lcd_exit, line 95: sleep_ms(20)
lcd_exit_sleep ==
    /\ main_pc = "sleep"
    /\ main_pc' = "poll"
    /\ UNCHANGED <<chan_vars, lcd_status_func, lcd_shows_status, led_color>>
    /\ core1_unchanged

\* lcd_exit, line 98: multicore_reset_core1(), then lcd_exit returns
lcd_exit_reset ==
    /\ main_pc = "reset"
    /\ main_pc' = "done"
    /\ task_pc' = "reset"
    /\ UNCHANGED <<chan_vars, lcd_status_func, lcd_shows_status, led_color>>
    /\ UNCHANGED <<lcd_task_done, lcd_frame_cnt, first, rotated, backlight,
                   draw_func, dev_vars, iter_vars>>

lcd_exit == lcd_exit_request \/ lcd_exit_poll \/ lcd_exit_sleep \/ lcd_exit_reset

(***************************************************************************)
(* lcd_task, the refresh task on core 1.  task_pc names the statement it   *)
(* executes next.  No step writes a variable of core 0 other than          *)
(* lcd_task_done and lcd_frame_cnt.                                        *)
(***************************************************************************)
core0_unchanged == UNCHANGED <<chan_vars, core0_vars>>

\* lines 111-117: backlight = lcd_backlight; lcd_dev_init(backlight);
\* rotated = false; draw_func = NULL; first = true
lcd_task_init ==
    /\ task_pc = "init"
    /\ backlight' = lcd_backlight
    /\ dev_state' = "on"
    /\ dev_backlight' = lcd_backlight
    /\ rotated' = FALSE
    /\ draw_func' = NULL
    /\ first' = TRUE
    /\ task_pc' = "loop"
    /\ UNCHANGED <<dev_rotated, iter_vars, lcd_task_done, lcd_frame_cnt>>
    /\ core0_unchanged

\* line 122: t = get_absolute_time(), the beginning of an iteration
lcd_task_start ==
    /\ task_pc = "loop"
    /\ task_pc' = "check_exit"
    /\ calls' = NoCalls
    /\ UNCHANGED <<first, rotated, backlight, draw_func, dev_vars,
                   last_drawn, last_first, sentinel_seen,
                   lcd_task_done, lcd_frame_cnt>>
    /\ core0_unchanged

\* the exit check with the test inverted
lcd_task_check_exit_inverted ==
    /\ task_pc = "check_exit"
    /\ task_pc' = IF lcd_draw_func # NULL THEN "dev_exit" ELSE "check_backlight"
    /\ sentinel_seen' = (lcd_draw_func = NULL)
    /\ UNCHANGED <<first, rotated, backlight, draw_func, dev_vars, calls,
                   last_drawn, last_first, lcd_task_done, lcd_frame_cnt>>
    /\ core0_unchanged

\* the exit check taking the request back once it has read it
lcd_task_check_exit_ack ==
    /\ task_pc = "check_exit"
    /\ task_pc' = IF lcd_draw_func = NULL THEN "dev_exit" ELSE "check_backlight"
    /\ sentinel_seen' = (lcd_draw_func = NULL)
    /\ lcd_draw_func' =
           IF lcd_draw_func = NULL THEN "lcd_draw_empty" ELSE lcd_draw_func
    /\ UNCHANGED <<first, rotated, backlight, draw_func, dev_vars, calls,
                   last_drawn, last_first, lcd_task_done, lcd_frame_cnt>>
    /\ UNCHANGED <<lcd_backlight, lcd_rotated, lcd_led_color, core0_vars>>

\* lines 125-126: if (lcd_draw_func == NULL) break
lcd_task_check_exit ==
    /\ task_pc = "check_exit"
    /\ task_pc' = IF lcd_draw_func = NULL THEN "dev_exit" ELSE "check_backlight"
    /\ sentinel_seen' = (lcd_draw_func = NULL)
    /\ UNCHANGED <<first, rotated, backlight, draw_func, dev_vars, calls,
                   last_drawn, last_first, lcd_task_done, lcd_frame_cnt>>
    /\ core0_unchanged

\* the backlight check calling lcd_dev_backlight in every iteration
lcd_task_check_backlight_always ==
    /\ task_pc = "check_backlight"
    /\ backlight' = lcd_backlight
    /\ dev_backlight' = lcd_backlight
    /\ calls' = [calls EXCEPT !.backlight = @ + 1]
    /\ task_pc' = "check_rotation"
    /\ UNCHANGED <<first, rotated, draw_func, dev_state, dev_rotated,
                   last_drawn, last_first, sentinel_seen,
                   lcd_task_done, lcd_frame_cnt>>
    /\ core0_unchanged

\* lines 129-133: new_backlight = lcd_backlight; on a change
\* backlight = new_backlight; lcd_dev_backlight(backlight)
lcd_task_check_backlight ==
    /\ task_pc = "check_backlight"
    /\ LET new_backlight == lcd_backlight IN
         IF new_backlight # backlight
         THEN /\ backlight' = new_backlight
              /\ dev_backlight' = new_backlight
              /\ calls' = [calls EXCEPT !.backlight = @ + 1]
         ELSE UNCHANGED <<backlight, dev_backlight, calls>>
    /\ task_pc' = "check_rotation"
    /\ UNCHANGED <<first, rotated, draw_func, dev_state, dev_rotated,
                   last_drawn, last_first, sentinel_seen,
                   lcd_task_done, lcd_frame_cnt>>
    /\ core0_unchanged

\* the rotation check applying a change from unrotated to rotated only
lcd_task_check_rotation_set_only ==
    /\ task_pc = "check_rotation"
    /\ LET new_rotated == lcd_rotated IN
         IF new_rotated /\ ~rotated
         THEN /\ rotated' = new_rotated
              /\ dev_rotated' = new_rotated
              /\ calls' = [calls EXCEPT !.rotation = @ + 1]
         ELSE UNCHANGED <<rotated, dev_rotated, calls>>
    /\ task_pc' = "check_func"
    /\ UNCHANGED <<first, backlight, draw_func, dev_state, dev_backlight,
                   last_drawn, last_first, sentinel_seen,
                   lcd_task_done, lcd_frame_cnt>>
    /\ core0_unchanged

\* lines 136-140: new_rotated = lcd_rotated; on a change
\* rotated = new_rotated; lcd_dev_rotation(rotated)
lcd_task_check_rotation ==
    /\ task_pc = "check_rotation"
    /\ LET new_rotated == lcd_rotated IN
         IF new_rotated # rotated
         THEN /\ rotated' = new_rotated
              /\ dev_rotated' = new_rotated
              /\ calls' = [calls EXCEPT !.rotation = @ + 1]
         ELSE UNCHANGED <<rotated, dev_rotated, calls>>
    /\ task_pc' = "check_func"
    /\ UNCHANGED <<first, backlight, draw_func, dev_state, dev_backlight,
                   last_drawn, last_first, sentinel_seen,
                   lcd_task_done, lcd_frame_cnt>>
    /\ core0_unchanged

\* the change check without first = true
lcd_task_check_func_no_first ==
    /\ task_pc = "check_func"
    /\ draw_func' = lcd_draw_func
    /\ task_pc' = "draw"
    /\ UNCHANGED <<first, rotated, backlight, dev_vars, iter_vars,
                   lcd_task_done, lcd_frame_cnt>>
    /\ core0_unchanged

\* lines 143-147: new_draw_func = lcd_draw_func; on a change
\* draw_func = new_draw_func; first = true
lcd_task_check_func ==
    /\ task_pc = "check_func"
    /\ LET new_draw_func == lcd_draw_func IN
         IF new_draw_func # draw_func
         THEN /\ draw_func' = new_draw_func
              /\ first' = TRUE
         ELSE UNCHANGED <<draw_func, first>>
    /\ task_pc' = "draw"
    /\ UNCHANGED <<rotated, backlight, dev_vars, iter_vars,
                   lcd_task_done, lcd_frame_cnt>>
    /\ core0_unchanged

\* lines 150-151: (*draw_func)(first); first = false.  A call through the
\* null pointer faults: core 1 stops in the fault handler.
lcd_task_draw ==
    /\ task_pc = "draw"
    /\ IF draw_func = NULL
       THEN /\ task_pc' = "fault"
            /\ UNCHANGED <<first, calls, last_drawn, last_first>>
       ELSE /\ task_pc' = "send"
            /\ last_drawn' = draw_func
            /\ last_first' = first
            /\ calls' = [calls EXCEPT !.draw = @ + 1]
            /\ first' = FALSE
    /\ UNCHANGED <<rotated, backlight, draw_func, dev_vars, sentinel_seen,
                   lcd_task_done, lcd_frame_cnt>>
    /\ core0_unchanged

\* line 152: lcd_dev_send_pixmap(draw_pixmap)
lcd_task_send ==
    /\ task_pc = "send"
    /\ calls' = [calls EXCEPT !.send = @ + 1]
    /\ task_pc' = "count"
    /\ UNCHANGED <<first, rotated, backlight, draw_func, dev_vars,
                   last_drawn, last_first, sentinel_seen,
                   lcd_task_done, lcd_frame_cnt>>
    /\ core0_unchanged

\* line 154: lcd_frame_cnt++
lcd_task_count ==
    /\ task_pc = "count"
    /\ lcd_frame_cnt' = U32_Inc(lcd_frame_cnt)
    /\ calls' = [calls EXCEPT !.count = @ + 1]
    /\ task_pc' = "sleep"
    /\ UNCHANGED <<first, rotated, backlight, draw_func, dev_vars,
                   last_drawn, last_first, sentinel_seen, lcd_task_done>>
    /\ core0_unchanged

\* lines 156-159: sleep until the frame period is over
lcd_task_sleep ==
    /\ task_pc = "sleep"
    /\ task_pc' = "loop"
    /\ UNCHANGED <<first, rotated, backlight, draw_func, dev_vars, iter_vars,
                   lcd_task_done, lcd_frame_cnt>>
    /\ core0_unchanged

\* lines 167 and 168 exchanged: the flag is raised before lcd_dev_exit
lcd_task_dev_exit_flag_first ==
    /\ task_pc = "dev_exit"
    /\ lcd_task_done' = TRUE
    /\ task_pc' = "set_done"
    /\ UNCHANGED <<first, rotated, backlight, draw_func, dev_vars, iter_vars,
                   lcd_frame_cnt>>
    /\ core0_unchanged

\* line 167: lcd_dev_exit()
lcd_task_dev_exit ==
    /\ task_pc = "dev_exit"
    /\ dev_state' = "exit"
    /\ task_pc' = "set_done"
    /\ UNCHANGED <<first, rotated, backlight, draw_func, dev_backlight,
                   dev_rotated, iter_vars, lcd_task_done, lcd_frame_cnt>>
    /\ core0_unchanged

\* line 168: lcd_task_done = true; then while (true) __wfi()
lcd_task_set_done ==
    /\ task_pc = "set_done"
    /\ lcd_task_done' = TRUE
    /\ task_pc' = "halt"
    /\ UNCHANGED <<first, rotated, backlight, draw_func, dev_vars, iter_vars,
                   lcd_frame_cnt>>
    /\ core0_unchanged

lcd_task ==
    \/ lcd_task_init
    \/ lcd_task_start
    \/ lcd_task_check_exit
    \/ lcd_task_check_backlight
    \/ lcd_task_check_rotation
    \/ lcd_task_check_func
    \/ lcd_task_draw
    \/ lcd_task_send
    \/ lcd_task_count
    \/ lcd_task_sleep
    \/ lcd_task_dev_exit
    \/ lcd_task_set_done

(***************************************************************************)
(* The two cores together.  written records, for the fields lcd_task has   *)
(* still to use in its current iteration, which of them core 0 wrote since *)
(* the iteration began.                                                    *)
(***************************************************************************)
Tracked(pc) ==
    CASE pc \in {"check_exit", "check_backlight", "check_rotation"} ->
             {"backlight", "rotation", "draw_func"}
      [] pc = "check_func" -> {"rotation", "draw_func"}
      [] pc \in {"draw", "send"} -> {"draw_func"}
      [] OTHER -> {}

\* lcd_task begins a further iteration only while fewer than n frames were
\* counted, or when core 0 is inside lcd_exit (it then writes nothing more)
FrameBound(n) == U32_Low(lcd_frame_cnt) < n \/ main_pc # "run"

Wrote(fields) ==
    /\ written' = (written \cup fields) \cap Tracked(task_pc)
    /\ UNCHANGED <<panel_hist, ext_vars>>

Core1(step) ==
    /\ step
    /\ written' = written \cap Tracked(task_pc')
    /\ UNCHANGED <<panel_hist, ext_vars>>

SetBrightness == \E b \in Brightness : lcd_brightness(b) /\ Wrote({"backlight"})
SetRotation == \E r \in BOOLEAN : lcd_set_rotation(r) /\ Wrote({"rotation"})
CustomDisp == \E f \in Banners : lcd_custom_disp(f) /\ Wrote({"draw_func"})
StatusDisp == \E w \in Selectors : lcd_status_disp(w) /\ Wrote({"draw_func"})
StatusNext ==
    lcd_status_next /\ Wrote(IF lcd_shows_status THEN {"draw_func"} ELSE {})
ExitRequest == lcd_exit_request /\ Wrote({"draw_func"})
ExitPoll == lcd_exit_poll /\ Wrote({})
ExitSleep == lcd_exit_sleep /\ Wrote({})
ExitReset ==
    lcd_exit_reset /\ written' = {} /\ UNCHANGED <<panel_hist, ext_vars>>

TaskInit == Core1(lcd_task_init)
TaskStart == FrameBound(MaxFrames) /\ Core1(lcd_task_start)
TaskCheckExit == Core1(lcd_task_check_exit)
TaskCheckBacklight == Core1(lcd_task_check_backlight)
TaskCheckRotation == Core1(lcd_task_check_rotation)
TaskCheckFunc == Core1(lcd_task_check_func)
TaskDraw == Core1(lcd_task_draw)
TaskSend == Core1(lcd_task_send)
TaskCount == Core1(lcd_task_count)
TaskSleep == Core1(lcd_task_sleep)
TaskDevExit == Core1(lcd_task_dev_exit)
TaskSetDone == Core1(lcd_task_set_done)

Next ==
    \/ SetBrightness
    \/ SetRotation
    \/ CustomDisp
    \/ StatusDisp
    \/ StatusNext
    \/ ExitRequest
    \/ ExitPoll
    \/ ExitSleep
    \/ ExitReset
    \/ TaskInit
    \/ TaskStart
    \/ TaskCheckExit
    \/ TaskCheckBacklight
    \/ TaskCheckRotation
    \/ TaskCheckFunc
    \/ TaskDraw
    \/ TaskSend
    \/ TaskCount
    \/ TaskSleep
    \/ TaskDevExit
    \/ TaskSetDone

Spec == Init /\ [][Next]_vars

(***************************************************************************)
(* The same with both cores scheduled fairly: core 1 executes lcd_task     *)
(* without pause, and core 0, once inside lcd_exit, keeps polling.         *)
(***************************************************************************)
TaskStep ==
    \/ TaskInit \/ TaskStart \/ TaskCheckExit \/ TaskCheckBacklight
    \/ TaskCheckRotation \/ TaskCheckFunc \/ TaskDraw \/ TaskSend
    \/ TaskCount \/ TaskSleep \/ TaskDevExit \/ TaskSetDone

ExitStep == ExitPoll \/ ExitSleep \/ ExitReset

FairSpec == Init /\ [][Next]_vars /\ WF_vars(TaskStep) /\ WF_vars(ExitStep)

(***************************************************************************)
(* The two cores with the RGB LED colour, without the record of what core  *)
(* 0 wrote during an iteration.                                            *)
(***************************************************************************)
Plain(step) == step /\ UNCHANGED <<written, panel_hist, ext_vars>>

ChanBrightness == \E b \in Brightness : Plain(lcd_brightness(b))
ChanSetRotation == \E r \in BOOLEAN : Plain(lcd_set_rotation(r))
ChanSetLedColor == \E c \in LedColors : Plain(set_led_color(c))
ChanUpdateLed == Plain(lcd_update_led)
ChanCustomDisp == \E f \in Banners : Plain(lcd_custom_disp(f))
ChanStatusDisp == \E w \in Selectors : Plain(lcd_status_disp(w))
ChanStatusNext == Plain(lcd_status_next)
ChanExit == Plain(lcd_exit)
ChanTaskStart == FrameBound(MaxChanFrames) /\ Plain(lcd_task_start)
ChanTask == Plain(lcd_task /\ task_pc # "loop")

ChanNext ==
    \/ ChanBrightness
    \/ ChanSetRotation
    \/ ChanSetLedColor
    \/ ChanUpdateLed
    \/ ChanCustomDisp
    \/ ChanStatusDisp
    \/ ChanStatusNext
    \/ ChanExit
    \/ ChanTaskStart
    \/ ChanTask

SpecChan == Init /\ [][ChanNext]_vars

(***************************************************************************)
(* The panel requests of core 0 alone, with their history: hist.op is the  *)
(* latest request, hist.saved the status panel that was remembered when    *)
(* the custom draw function now shown (or just replaced by the latest      *)
(* lcd_status_disp) was given to lcd_custom_disp, hist.moved whether       *)
(* lcd_status_next was called since, hist.which the selector of the latest *)
(* lcd_status_disp if no lcd_custom_disp came after it.  run_len counts    *)
(* the lcd_status_next requests since the latest other request, run_start  *)
(* is the status panel remembered when they began.                         *)
(***************************************************************************)
SavedNow == IF hist.op \in {"current", "select"} THEN "none" ELSE hist.saved

PanelCustomDisp ==
    \E f \in CustomFuncs :
        /\ lcd_custom_disp(f)
        /\ hist' = [op |-> "custom", saved |-> lcd_status_func,
                    moved |-> FALSE, which |-> "none"]
        /\ run_len' = 0
        /\ run_start' = lcd_status_func'
        /\ UNCHANGED <<written, ext_vars>>

PanelStatusDisp ==
    \E w \in Selectors :
        /\ lcd_status_disp(w)
        /\ hist' = [op |-> IF w \in {"LCD_STATUS_CURRENT", "OTHER"}
                           THEN "current" ELSE "select",
                    saved |-> SavedNow,
                    moved |-> SavedNow # "none" /\ hist.moved,
                    which |-> w]
        /\ run_len' = 0
        /\ run_start' = lcd_status_func'
        /\ UNCHANGED <<written, ext_vars>>

PanelStatusNext ==
    /\ run_len < MaxNext
    /\ lcd_status_next
    /\ hist' = [op |-> "next", saved |-> SavedNow,
                moved |-> SavedNow # "none", which |-> hist.which]
    /\ run_len' = run_len + 1
    /\ UNCHANGED <<run_start, written, ext_vars>>

PanelNext == PanelCustomDisp \/ PanelStatusDisp \/ PanelStatusNext

SpecPanel == Init /\ [][PanelNext]_vars

(***************************************************************************)
(* Claims about the refresh task and the shared variables.                 *)
(***************************************************************************)
\* statements of the loop body of lcd_task after the exit check
InLoopBody ==
    {"check_backlight", "check_rotation", "check_func", "draw", "send",
     "count", "sleep"}

\* statements of lcd_task after the loop
AfterLoop == {"dev_exit", "set_done", "halt"}

\* core 1 executes the statement at pc
TaskAt(pc) == task_pc = pc /\ task_pc' # pc

\* C1: lcd_task never calls through the null pointer: whenever it is about
\* to execute (*draw_func)(first), draw_func is not NULL, although core 0
\* may store NULL between the exit check and the change check.
C1_NeverDispatchesSentinel == task_pc = "draw" => draw_func # NULL

\* C2: lcd_task_done is true only if lcd_task has read NULL from
\* lcd_draw_func in its exit check and has left the loop; it is false from
\* lcd_init until then, and once true it is never false again.
C2_TaskDone ==
    /\ [](lcd_task_done => sentinel_seen /\ task_pc \in {"halt", "reset"})
    /\ [][lcd_task_done => lcd_task_done']_vars

C2_Witness == lcd_task_done /\ sentinel_seen /\ main_pc = "poll"

\* C3: once core 0 is inside lcd_exit, lcd_task_done eventually becomes
\* true and lcd_exit returns, wherever lcd_task was when NULL was stored.
C3_ShutdownCompletes == (main_pc # "run") ~> (lcd_task_done /\ main_pc = "done")

\* C4: lcd_task leaves in this order: lcd_dev_exit, lcd_task_done = true,
\* halt for ever; once its exit check has read NULL it calls no draw
\* function, sends no frame, sets no backlight or rotation and does not
\* count a frame.
C4_ExitOrder ==
    /\ [](sentinel_seen => task_pc \in AfterLoop \cup {"reset"})
    /\ [](dev_state = "exit" => sentinel_seen)
    /\ [](task_pc = "set_done" => dev_state = "exit" /\ ~lcd_task_done)
    /\ [](task_pc = "halt" => dev_state = "exit" /\ lcd_task_done)
    /\ [][task_pc = "halt" => task_pc' \in {"halt", "reset"}]_vars
    /\ [][sentinel_seen =>
            /\ sentinel_seen'
            /\ UNCHANGED <<calls, last_drawn, last_first, dev_backlight,
                           dev_rotated, lcd_frame_cnt>>]_vars

C4_Witness ==
    /\ task_pc = "halt"
    /\ lcd_task_done
    /\ dev_state = "exit"
    /\ lcd_frame_cnt = <<0, 1>>

\* C5: a draw function is called with first = true exactly when it is the
\* first call of lcd_task or the function differs from the one called in
\* the iteration before; so a call with first = false always follows a
\* call of the same function.
C5_FirstFlag ==
    [][TaskAt("draw") /\ task_pc' = "send" =>
         /\ last_first' = (last_drawn = NULL \/ last_drawn' # last_drawn)
         /\ last_drawn' = draw_func
         /\ last_first' = first]_vars

C5_Witness ==
    /\ task_pc = "send"
    /\ ~last_first
    /\ last_drawn = "lcd_draw_banner"

\* C6: after the launch of lcd_task, lcd_draw_func, lcd_backlight,
\* lcd_rotated and lcd_led_color are written by core 0 only (not by
\* lcd_task, which includes the draw functions it calls), and
\* lcd_task_done is written by lcd_task only.
C6_SingleWriter ==
    [][/\ (task_pc' # task_pc /\ main_pc' = main_pc) => UNCHANGED chan_vars
       /\ (main_pc' # main_pc \/ task_pc' = task_pc) =>
              UNCHANGED lcd_task_done]_vars

C6_Witness ==
    /\ lcd_task_done
    /\ lcd_led_color = C_RED
    /\ lcd_backlight # DEFAULT_BRIGHTNESS
    /\ lcd_rotated
    /\ lcd_draw_func = NULL

\* C7: in an iteration that passes the exit check, lcd_dev_backlight is
\* called once if lcd_backlight differs from the level applied last (at
\* first the level given to lcd_dev_init) and not at all otherwise;
\* lcd_dev_rotation likewise (at first false); afterwards the levels
\* applied last are the ones read.
C7_ApplyOnChange ==
    /\ [](task_pc # "init" =>
            /\ backlight = dev_backlight
            /\ rotated = dev_rotated
            /\ calls.backlight \in {0, 1}
            /\ calls.rotation \in {0, 1})
    /\ [][TaskAt("init") =>
            backlight' = lcd_backlight /\ rotated' = FALSE]_vars
    /\ [][TaskAt("check_backlight") =>
            /\ calls'.backlight = IF lcd_backlight # backlight THEN 1 ELSE 0
            /\ backlight' = lcd_backlight]_vars
    /\ [][TaskAt("check_rotation") =>
            /\ calls'.rotation = IF lcd_rotated # rotated THEN 1 ELSE 0
            /\ rotated' = lcd_rotated]_vars
    /\ [][(task_pc \in InLoopBody \ {"check_backlight"}) =>
            /\ calls'.backlight = calls.backlight
            /\ UNCHANGED backlight]_vars
    /\ [][(task_pc \in InLoopBody \ {"check_rotation"}) =>
            /\ calls'.rotation = calls.rotation
            /\ UNCHANGED rotated]_vars

C7_Witness ==
    /\ task_pc = "sleep"
    /\ calls.backlight = 1
    /\ calls.rotation = 0
    /\ dev_backlight = 40
    /\ lcd_frame_cnt = <<0, 2>>

\* C8: when core 0 has not written a field since the current iteration of
\* lcd_task began, the iteration uses the value the field holds: it has
\* applied that backlight and that rotation to the device, and it has
\* called that draw function.
C8_Freshness ==
    /\ (task_pc = "check_rotation" /\ "backlight" \notin written) =>
           dev_backlight = lcd_backlight
    /\ (task_pc = "check_func" /\ "rotation" \notin written) =>
           dev_rotated = lcd_rotated
    /\ (task_pc = "send" /\ "draw_func" \notin written) =>
           last_drawn = lcd_draw_func /\ calls.draw = 1

C8_Witness ==
    /\ task_pc = "send"
    /\ written = {}
    /\ last_drawn = "lcd_draw_drives"
    /\ dev_backlight = 40
    /\ dev_rotated
    /\ lcd_frame_cnt = <<0, 1>>

(***************************************************************************)
(* Claims about the panel requests.                                        *)
(***************************************************************************)
\* C9: lcd_status_next has cycle length five: after n consecutive requests
\* the remembered status panel is the one the run began with exactly when
\* n is a multiple of five; so five requests lead from Registers (and from
\* every other panel) back to it, and one to four requests do not.
C9_CycleOfFive ==
    /\ Cardinality(StatusPanels) = 5
    /\ run_start \in StatusPanels
    /\ (lcd_status_func = run_start) = (run_len % 5 = 0)

C9_Witness ==
    /\ run_len = 5
    /\ run_start = "lcd_draw_cpu_reg"
    /\ lcd_status_func = "lcd_draw_cpu_reg"

\* C10, as claimed: lcd_custom_disp leaves the remembered status panel
\* unchanged, and a later lcd_status_disp(LCD_STATUS_CURRENT), or one with
\* an unrecognised selector, makes lcd_draw_func the status panel that was
\* remembered before the custom draw function was shown.
C10_RestoresSaved ==
    /\ hist.op = "custom" => lcd_status_func = hist.saved
    /\ (hist.op = "current" /\ hist.saved # "none") =>
           lcd_draw_func = hist.saved

\* C10, amended: lcd_custom_disp sets lcd_draw_func, clears
\* lcd_shows_status and leaves the remembered status panel unchanged; the
\* next lcd_status_disp(LCD_STATUS_CURRENT), or one with an unrecognised
\* selector, makes lcd_draw_func the remembered status panel, which is the
\* one remembered before the custom draw function was shown unless
\* lcd_status_next was called in between.
C10_RestoresRemembered ==
    /\ hist.op = "custom" =>
           /\ lcd_status_func = hist.saved
           /\ lcd_draw_func \in CustomFuncs
           /\ ~lcd_shows_status
    /\ hist.op = "current" =>
           /\ lcd_draw_func = lcd_status_func
           /\ lcd_shows_status
    /\ (hist.op = "current" /\ hist.saved # "none" /\ ~hist.moved) =>
           lcd_draw_func = hist.saved

C10_Witness ==
    /\ hist.op = "current"
    /\ hist.saved = "lcd_draw_drives"
    /\ ~hist.moved
    /\ lcd_draw_func = "lcd_draw_drives"

\* the status panels in the order of the display cycle
PanelOrder ==
    <<"lcd_draw_cpu_reg", "lcd_draw_panel", "lcd_draw_drives",
      "lcd_draw_ports", "lcd_draw_memory">>

\* the panel that follows the i-th one in the cycle
PanelAfter(i) == PanelOrder[(i % Len(PanelOrder)) + 1]

\* C11: after lcd_status_disp the draw function shown is the remembered
\* status panel and the display shows a status panel; when the selector
\* names a panel, that panel is the remembered one, and the next
\* lcd_status_next steps from it to its successor in the cycle (not from
\* the panel remembered before) and shows the successor.
C11_SelectIsRemembered ==
    /\ hist.op \in {"select", "current"} =>
           /\ lcd_draw_func = lcd_status_func
           /\ lcd_shows_status
    /\ hist.op = "select" =>
           /\ hist.which = "LCD_STATUS_REGISTERS" =>
                  lcd_status_func = PanelOrder[1]
           /\ hist.which = "LCD_STATUS_PANEL" =>
                  lcd_status_func = PanelOrder[2]
           /\ hist.which = "LCD_STATUS_DRIVES" =>
                  lcd_status_func = PanelOrder[3]
           /\ hist.which = "LCD_STATUS_PORTS" =>
                  lcd_status_func = PanelOrder[4]
           /\ hist.which = "LCD_STATUS_MEMORY" =>
                  lcd_status_func = PanelOrder[5]
    /\ (run_len = 1 /\ hist.which # "none") =>
           /\ lcd_draw_func = lcd_status_func
           /\ hist.which = "LCD_STATUS_REGISTERS" =>
                  lcd_status_func = PanelAfter(1)
           /\ hist.which = "LCD_STATUS_PANEL" =>
                  lcd_status_func = PanelAfter(2)
           /\ hist.which = "LCD_STATUS_DRIVES" =>
                  lcd_status_func = PanelAfter(3)
           /\ hist.which = "LCD_STATUS_PORTS" =>
                  lcd_status_func = PanelAfter(4)
           /\ hist.which = "LCD_STATUS_MEMORY" =>
                  lcd_status_func = PanelAfter(5)

C11_Witness ==
    /\ run_len = 1
    /\ hist.op = "next"
    /\ hist.which = "LCD_STATUS_MEMORY"
    /\ lcd_status_func = "lcd_draw_cpu_reg"
    /\ lcd_draw_func = "lcd_draw_cpu_reg"

\* C26: lcd_status_next steps from each status panel to the one that
\* follows it in Registers, FrontPanel, Drives, Ports, Memory, Registers;
\* the five panels are one cycle, so n requests lead from the i-th panel to
\* the (i + n)-th; and when a status panel is shown, the same call makes
\* the new remembered panel the draw function shown.
C26_CyclicOrder ==
    /\ [](/\ {PanelOrder[i] : i \in 1..Len(PanelOrder)} = StatusPanels
          /\ Cardinality(StatusPanels) = 5
          /\ \E i \in 1..5 :
                 /\ run_start = PanelOrder[i]
                 /\ lcd_status_func = PanelOrder[((i - 1 + run_len) % 5) + 1])
    /\ [][(hist'.op = "next" /\ run_len' = run_len + 1) =>
              /\ \E i \in 1..5 :
                     /\ lcd_status_func = PanelOrder[i]
                     /\ lcd_status_func' = PanelAfter(i)
              /\ lcd_shows_status =>
                     /\ lcd_draw_func' = lcd_status_func'
                     /\ lcd_shows_status']_vars

\* four requests with the status shown led from FrontPanel over Memory to
\* Registers
C26_Witness ==
    /\ hist.op = "next"
    /\ run_len = 4
    /\ run_start = "lcd_draw_panel"
    /\ lcd_status_func = "lcd_draw_cpu_reg"
    /\ lcd_shows_status
    /\ lcd_draw_func = "lcd_draw_cpu_reg"

\* C27: lcd_status_next called while a custom draw function is shown
\* (lcd_shows_status false) moves the remembered status panel to its
\* successor and leaves lcd_draw_func and lcd_shows_status as they are, so
\* a NULL stored by lcd_custom_disp(NULL) stays; and in every state
\* lcd_shows_status implies lcd_draw_func = lcd_status_func.
C27_CustomKeepsRenderer ==
    /\ [](lcd_shows_status => lcd_draw_func = lcd_status_func)
    /\ [](lcd_draw_func \in CustomFuncs => ~lcd_shows_status)
    /\ [][(hist'.op = "next" /\ run_len' = run_len + 1
               /\ ~lcd_shows_status) =>
              /\ lcd_draw_func' = lcd_draw_func
              /\ ~lcd_shows_status'
              /\ lcd_status_func' # lcd_status_func
              /\ lcd_status_func' \in StatusPanels]_vars
    /\ [][(hist'.op = "next" /\ run_len' = run_len + 1
               /\ lcd_draw_func = NULL) =>
              lcd_draw_func' = NULL]_vars

\* lcd_custom_disp(NULL), then two requests for the next panel: the
\* remembered panel moved from Registers to Drives and NULL is still there
C27_Witness ==
    /\ hist.op = "next"
    /\ run_len = 2
    /\ hist.saved = "lcd_draw_cpu_reg"
    /\ lcd_status_func = "lcd_draw_drives"
    /\ ~lcd_shows_status
    /\ lcd_draw_func = NULL

(***************************************************************************)
(* The disk drive status.  lcd_update_drive runs on core 0 and stores the  *)
(* five fields of the entry, then lastacc, then the LED colour;            *)
(* lcd_draw_drives runs on core 1 inside the draw step of lcd_task and may *)
(* run between any two of these.                                           *)
(***************************************************************************)
\* x - y in uint32_t arithmetic
U32_Sub(x, y) ==
    LET lo == x[2] - y[2]
        hi == x[1] - y[1] - (IF lo < 0 THEN 1 ELSE 0)
    IN  <<(hi + UINT16_MOD) % UINT16_MOD, (lo + UINT16_MOD) % UINT16_MOD>>

\* x >= n for a uint32_t x and a number n below 2^16
U32_AtLeast(x, n) == x[1] > 0 \/ x[2] >= n

\* 10 * LCD_REFRESH (line 898)
DRIVE_IDLE_FRAMES == 10 * LCD_REFRESH

\* lines 833-837: the five fields of the entry
lcd_update_drive_fields(track, sector, addr, rdwr, active) ==
    /\ main_pc = "run"
    /\ upd.pc = "idle"
    /\ lcd_drives' = [lcd_drives EXCEPT !.track = track % UINT8_MOD,
                                        !.sector = sector % UINT8_MOD,
                                        !.addr = addr % UINT16_MOD,
                                        !.rdwr = rdwr,
                                        !.active = active]
    /\ upd' = [pc |-> "lastacc"]
    /\ UNCHANGED <<chan_vars, core0_vars>>
    /\ core1_unchanged

\* line 838: p->lastacc = lcd_frame_cnt
lcd_update_drive_lastacc ==
    /\ upd.pc = "lastacc"
    /\ lcd_drives' = [lcd_drives EXCEPT !.lastacc = lcd_frame_cnt]
    /\ upd' = [pc |-> "led"]
    /\ UNCHANGED <<chan_vars, core0_vars>>
    /\ core1_unchanged

\* the access LED with green in place of red for a read
lcd_update_drive_led_exclusive ==
    /\ upd.pc = "led"
    /\ led_color' =
           IF lcd_drives.active
           THEN IF lcd_drives.rdwr
                THEN (led_color \ C_RED) \cup C_RED
                ELSE (led_color \ (C_RED \cup C_GREEN)) \cup C_GREEN
           ELSE led_color \ (C_RED \cup C_GREEN)
    /\ lcd_led_color' = led_color'
    /\ upd' = [pc |-> "idle"]
    /\ UNCHANGED <<lcd_draw_func, lcd_backlight, lcd_rotated,
                   lcd_status_func, lcd_shows_status, main_pc, lcd_drives>>
    /\ core1_unchanged

\* lines 840-847: the access LED, and lcd_update_led()
lcd_update_drive_led ==
    /\ upd.pc = "led"
    /\ led_color' =
           IF lcd_drives.active
           THEN IF lcd_drives.rdwr
                THEN (led_color \ C_RED) \cup C_RED
                ELSE (led_color \ C_GREEN) \cup C_GREEN
           ELSE led_color \ (C_RED \cup C_GREEN)
    /\ lcd_led_color' = led_color'
    /\ upd' = [pc |-> "idle"]
    /\ UNCHANGED <<lcd_draw_func, lcd_backlight, lcd_rotated,
                   lcd_status_func, lcd_shows_status, main_pc, lcd_drives>>
    /\ core1_unchanged

\* lcd_draw_drives with the test for the idle time inverted
DriveIdle_inverted(p, cnt) ==
    ~U32_AtLeast(U32_Sub(cnt, p.lastacc), DRIVE_IDLE_FRAMES)

\* line 898 as lcd_frame_cnt >= p->lastacc + 10 * LCD_REFRESH
DriveIdle_sum(p, cnt) ==
    LET low == p.lastacc[2] + DRIVE_IDLE_FRAMES
        sum == <<(p.lastacc[1] + (low \div UINT16_MOD)) % UINT16_MOD,
                 low % UINT16_MOD>>
    IN  cnt[1] > sum[1] \/ (cnt[1] = sum[1] /\ cnt[2] >= sum[2])

\* line 898: lcd_frame_cnt - p->lastacc >= 10 * LCD_REFRESH
DriveIdle(p, cnt) == U32_AtLeast(U32_Sub(cnt, p.lastacc), DRIVE_IDLE_FRAMES)

\* lines 895-934: what lcd_draw_drives(false) draws in the row of the drive
DriveDrawn(p, cnt) ==
    IF DriveIdle(p, cnt) THEN "blank"
    ELSE IF p.sector # 0 THEN "active"
    ELSE "nothing"

\* lcd_draw_drives(first), as far as it writes the entry
lcd_draw_drives(is_first) ==
    lcd_drives' =
        IF ~is_first /\ DriveIdle(lcd_drives, lcd_frame_cnt)
        THEN [lcd_drives EXCEPT !.sector = 0]
        ELSE lcd_drives

(***************************************************************************)
(* The state k frames after lcd_init when core 0 called nothing in         *)
(* between: lcd_task has drawn lcd_draw_empty k times (k >= 2) and is      *)
(* about to begin its next iteration.                                      *)
(***************************************************************************)
AfterFrames(k) ==
    /\ lcd_draw_func = "lcd_draw_empty"
    /\ lcd_backlight = DEFAULT_BRIGHTNESS
    /\ lcd_rotated = FALSE
    /\ lcd_led_color = C_BLACK
    /\ lcd_task_done = FALSE
    /\ lcd_status_func = "lcd_draw_cpu_reg"
    /\ lcd_shows_status = FALSE
    /\ lcd_frame_cnt = k
    /\ led_color = C_BLACK
    /\ main_pc = "run"
    /\ task_pc = "loop"
    /\ first = FALSE
    /\ rotated = FALSE
    /\ backlight = DEFAULT_BRIGHTNESS
    /\ draw_func = "lcd_draw_empty"
    /\ dev_state = "on"
    /\ dev_backlight = DEFAULT_BRIGHTNESS
    /\ dev_rotated = FALSE
    /\ calls = [backlight |-> 0, rotation |-> 0, draw |-> 1, send |-> 1,
                count |-> 1]
    /\ last_drawn = "lcd_draw_empty"
    /\ last_first = FALSE
    /\ sentinel_seen = FALSE
    /\ written = {}
    /\ run_len = 0
    /\ run_start = "lcd_draw_cpu_reg"
    /\ hist = [op |-> "init", saved |-> "none", moved |-> FALSE,
               which |-> "none"]
    /\ lcd_drives = [track |-> 0, sector |-> 0, addr |-> 0, rdwr |-> FALSE,
                     active |-> FALSE, lastacc |-> <<0, 0>>]
    /\ upd = [pc |-> "idle"]
    /\ drive_hist = [accessed |-> FALSE, sector |-> 0, drawn |-> "none",
                     at |-> <<0, 0>>, blanks |-> 0, stamped |-> FALSE,
                     age |-> 0]
    /\ port_flags = [f \in PortFlags |-> FALSE]
    /\ port_pos = 0
    /\ port_hist = [f \in PortFlags |-> "clear"]
    /\ elapsed = 0
    /\ pace = [done |-> 0, d |-> 0, slept |-> 0, late_before |-> FALSE]
    /\ last_upd = <<0, 0>>
    /\ info = [kind |-> "none", before |-> "none", values |-> FALSE,
               led_drawn |-> FALSE, led |-> C_BLACK, gap |-> 0,
               gap_before |-> 0]
    /\ cpu = "Z80"
    /\ cpu_type = "0"
    /\ grid = NoGrid
    /\ reg_pc = "enter"
    /\ reg_hist = [kind |-> "none", seen |-> "0", prev |-> "0",
                   passed |-> FALSE, table |-> NULL, grid |-> NoGrid,
                   info_first |-> FALSE]
    /\ cells = NoRedraw
    /\ paint = NoPaint
    /\ mem = NoMem
    /\ disks = NoDisks
    /\ mount_hist = NoMount
    /\ lcd_pixmap = lcd_pixmap_init(16)

(***************************************************************************)
(* The two cores with the Drives panel, from the frame at which a drive    *)
(* that was never accessed counts as idle.  drive_hist.accessed tells that *)
(* lcd_update_drive was called, drive_hist.sector is the sector stored by  *)
(* the latest call, drive_hist.drawn what the latest lcd_draw_drives drew  *)
(* in the row of the drive ("none" once lcd_update_drive has taken a step  *)
(* since), drive_hist.at the frame counter it saw and drive_hist.blanks    *)
(* how many calls of lcd_draw_drives(false) in a row, up to 3, have drawn  *)
(* the row blank with no step of lcd_update_drive in between.              *)
(***************************************************************************)
DrvUpdateFields ==
    \E sector \in {0, 1}, rdwr, active \in BOOLEAN :
        /\ U32_Low(lcd_frame_cnt) < DRIVE_IDLE_FRAMES + MaxAccessFrames
        /\ lcd_update_drive_fields(7, sector, 128, rdwr, active)
        /\ drive_hist' = [drive_hist EXCEPT !.accessed = TRUE,
                                            !.sector = sector % UINT8_MOD,
                                            !.drawn = "none",
                                            !.blanks = 0]
        /\ UNCHANGED <<written, panel_hist, port_vars, tail_vars>>

DrvTaskDraw ==
    /\ lcd_task_draw
    /\ IF draw_func = "lcd_draw_drives"
       THEN /\ lcd_draw_drives(first)
            /\ drive_hist' =
                   [drive_hist EXCEPT
                        !.drawn = IF first THEN "static"
                                  ELSE DriveDrawn(lcd_drives, lcd_frame_cnt),
                        !.at = lcd_frame_cnt,
                        !.blanks =
                            IF ~first /\ DriveIdle(lcd_drives, lcd_frame_cnt)
                            THEN IF @ < 3 THEN @ + 1 ELSE 3
                            ELSE 0]
       ELSE UNCHANGED <<lcd_drives, drive_hist>>
    /\ UNCHANGED <<upd, written, panel_hist, port_vars, tail_vars>>

DrvNext ==
    \/ upd.pc = "idle" /\ Plain(lcd_status_disp("LCD_STATUS_DRIVES"))
    \/ DrvUpdateFields
    \/ /\ lcd_update_drive_lastacc
       /\ drive_hist' = [drive_hist EXCEPT !.drawn = "none", !.blanks = 0]
       /\ UNCHANGED <<written, panel_hist, port_vars, tail_vars>>
    \/ /\ lcd_update_drive_led
       /\ drive_hist' = [drive_hist EXCEPT !.drawn = "none", !.blanks = 0]
       /\ UNCHANGED <<written, panel_hist, port_vars, tail_vars>>
    \/ /\ FrameBound(2 * DRIVE_IDLE_FRAMES + MaxAccessFrames)
       /\ Plain(lcd_task_start)
    \/ Plain(lcd_task_check_exit)
    \/ Plain(lcd_task_check_backlight)
    \/ Plain(lcd_task_check_rotation)
    \/ Plain(lcd_task_check_func)
    \/ DrvTaskDraw
    \/ Plain(lcd_task_send)
    \/ Plain(lcd_task_count)
    \/ Plain(lcd_task_sleep)

SpecDrives == AfterFrames(<<0, DRIVE_IDLE_FRAMES>>) /\ [][DrvNext]_vars

\* C12: when the latest lcd_update_drive has returned, stored a non-zero
\* sector and recorded frame f0 in lastacc, a later lcd_draw_drives(false)
\* that sees a frame counter below f0 + 10 * LCD_REFRESH draws the drive
\* active, and one that sees f0 + 10 * LCD_REFRESH or more draws the row
\* blank and leaves sector 0, without any further call from core 0.
C12_IdleDecay ==
    (/\ upd.pc = "idle"
     /\ drive_hist.accessed
     /\ drive_hist.sector # 0
     /\ drive_hist.drawn \notin {"none", "static"}) =>
        IF U32_AtLeast(U32_Sub(drive_hist.at, lcd_drives.lastacc),
                       DRIVE_IDLE_FRAMES)
        THEN drive_hist.drawn = "blank" /\ lcd_drives.sector = 0
        ELSE drive_hist.drawn = "active"

\* C28: once lcd_update_drive has returned with a non-zero sector stored,
\* the entry of the drive holds that sector for as long as the frame
\* counter is below lastacc + 10 * LCD_REFRESH, wherever the calls of
\* lcd_draw_drives fell between the stores of lcd_update_drive.
C28_AccessNotLost ==
    (/\ upd.pc = "idle"
     /\ drive_hist.accessed
     /\ drive_hist.sector # 0
     /\ ~U32_AtLeast(U32_Sub(lcd_frame_cnt, lcd_drives.lastacc),
                     DRIVE_IDLE_FRAMES)) =>
        lcd_drives.sector = drive_hist.sector

\* C24 as stated: after the call of lcd_draw_drives(false) at which the
\* idle time of a drive is over, with no new access, one more call draws
\* the row of the drive blank and the calls after it draw nothing there:
\* the row is never drawn blank by three calls in a row.
C24_OneExtraFrame == drive_hist.blanks < 3

\* C24, amended: when a call of lcd_draw_drives(false) has drawn the row of
\* a drive blank and lcd_update_drive has not been called since, the next
\* call of lcd_draw_drives(false) draws the row blank again and stores
\* sector 0 again, and so does every call after it.
C24_BlankEveryFrame ==
    [][(/\ task_pc = "draw"
        /\ task_pc' # "draw"
        /\ draw_func = "lcd_draw_drives"
        /\ ~first
        /\ drive_hist.drawn = "blank")
           => /\ drive_hist'.drawn = "blank"
              /\ drive_hist'.blanks > drive_hist.blanks \/ drive_hist.blanks = 3
              /\ lcd_drives'.sector = 0
              /\ lcd_drives'.lastacc = lcd_drives.lastacc]_vars

\* lcd_update_drive stored a non-zero sector, its idle time passed, and the
\* second call in a row has drawn the row blank
C24_Witness ==
    /\ drive_hist.accessed
    /\ drive_hist.sector # 0
    /\ upd.pc = "idle"
    /\ drive_hist.drawn = "blank"
    /\ drive_hist.blanks = 2
    /\ lcd_drives.sector = 0
    /\ U32_AtLeast(U32_Sub(drive_hist.at, lcd_drives.lastacc),
                   DRIVE_IDLE_FRAMES + 1)

(***************************************************************************)
(* The access LED.  Core 0 gives led_color any value, a colour being the   *)
(* set of its components: red, green and the bits outside the two; and it  *)
(* calls lcd_update_drive and lcd_update_led.                              *)
(***************************************************************************)
SpecLed ==
    /\ Init
    /\ [][\/ \E color \in SUBSET (C_RED \cup C_GREEN \cup {"B"}) :
                 /\ upd.pc = "idle"
                 /\ set_led_color(color)
                 /\ UNCHANGED <<written, panel_hist, ext_vars>>
          \/ upd.pc = "idle" /\ Plain(lcd_update_led)
          \/ DrvUpdateFields
          \/ /\ lcd_update_drive_lastacc
             /\ drive_hist' = [drive_hist EXCEPT !.drawn = "none",
                                                 !.blanks = 0]
             /\ UNCHANGED <<written, panel_hist, port_vars, tail_vars>>
          \/ /\ lcd_update_drive_led
             /\ drive_hist' = [drive_hist EXCEPT !.drawn = "none",
                                                 !.blanks = 0]
             /\ UNCHANGED <<written, panel_hist, port_vars, tail_vars>>]_vars

\* C30: the LED statements of lcd_update_drive add red to led_color for an
\* active write and green for an active read, each leaving the other of the
\* two as it is; they take red and green away for an update that is not
\* active; they never change a bit outside red and green; and when the
\* call returns lcd_led_color equals led_color.
C30_DriveLed ==
    [][(upd.pc = "led" /\ upd'.pc = "idle") =>
           /\ (lcd_drives.active /\ lcd_drives.rdwr) =>
                  /\ C_RED \subseteq led_color'
                  /\ led_color' \ C_RED = led_color \ C_RED
           /\ (lcd_drives.active /\ ~lcd_drives.rdwr) =>
                  /\ C_GREEN \subseteq led_color'
                  /\ led_color' \ C_GREEN = led_color \ C_GREEN
           /\ ~lcd_drives.active =>
                  led_color' \cap (C_RED \cup C_GREEN) = {}
           /\ led_color' \ (C_RED \cup C_GREEN)
                  = led_color \ (C_RED \cup C_GREEN)
           /\ lcd_led_color' = led_color']_vars

\* an active read has returned with red, green and the other bits on
C30_Witness ==
    /\ upd.pc = "idle"
    /\ drive_hist.accessed
    /\ lcd_drives.active
    /\ ~lcd_drives.rdwr
    /\ led_color = C_RED \cup C_GREEN \cup {"B"}
    /\ lcd_led_color = led_color

(***************************************************************************)
(* The I/O port access flags.  Core 0 sets a flag when the emulated CPU    *)
(* reads or writes the port; lcd_draw_ports(false) runs on core 1 inside   *)
(* the draw step of lcd_task, reads the flags one after the other while it *)
(* draws them and then clears them all.  Core 0 can run between any two    *)
(* of its reads and before the clear.                                      *)
(*                                                                         *)
(* port_hist says of each flag whether core 0 set it and no lcd_draw_ports *)
(* has drawn it active since ("set"), whether it was drawn active          *)
(* ("shown"), or neither ("clear").                                        *)
(***************************************************************************)
\* core 0 marks a port as read (in) or written (out)
port_access(f) ==
    /\ main_pc = "run"
    /\ port_flags' = [port_flags EXCEPT ![f] = TRUE]
    /\ UNCHANGED <<chan_vars, core0_vars>>
    /\ core1_unchanged

\* line 1018, memset(port_flags, 0, sizeof(port_flags)), comes when every
\* flag has been drawn
lcd_draw_ports_clear(pos) == pos = Len(PortOrder)

\* lines 994-1012: col = (p->in ? C_GREEN : C_DKBLUE), or the like for
\* p->out, and the bar drawn in that colour
lcd_draw_ports_led ==
    /\ task_pc = "draw"
    /\ draw_func = "lcd_draw_ports"
    /\ ~first
    /\ port_pos < Len(PortOrder)
    /\ port_pos' = port_pos + 1
    /\ UNCHANGED <<port_flags, task_vars, dev_vars, iter_vars, lcd_task_done,
                   lcd_frame_cnt>>
    /\ core0_unchanged

\* lcd_draw_ports with the memset of line 1017 after the static content too
lcd_task_draw_ports_clear_first ==
    /\ lcd_task_draw
    /\ IF draw_func = "lcd_draw_ports"
       THEN /\ first \/ lcd_draw_ports_clear(port_pos)
            /\ port_flags' = [f \in PortFlags |-> FALSE]
            /\ port_pos' = 0
       ELSE UNCHANGED <<port_flags, port_pos>>

\* the call (*draw_func)(first) of lcd_task returning, for lcd_draw_ports
\* after the memset
lcd_task_draw_ports ==
    /\ lcd_task_draw
    /\ IF draw_func = "lcd_draw_ports" /\ ~first
       THEN /\ lcd_draw_ports_clear(port_pos)
            /\ port_flags' = [f \in PortFlags |-> FALSE]
            /\ port_pos' = 0
       ELSE UNCHANGED <<port_flags, port_pos>>

PortKeep ==
    UNCHANGED <<written, panel_hist, lcd_drives, upd, drive_hist, tail_vars>>

PortStep(step) == step /\ UNCHANGED port_vars /\ PortKeep

PortNext ==
    \/ PortStep(lcd_status_disp("LCD_STATUS_PORTS"))
    \/ PortStep(lcd_status_next)
    \/ \E f \in PortFlags :
          /\ port_access(f)
          /\ port_hist' = [port_hist EXCEPT ![f] = "set"]
          /\ UNCHANGED port_pos
          /\ PortKeep
    \/ PortStep(lcd_task_init)
    \/ FrameBound(MaxPortFrames) /\ PortStep(lcd_task_start)
    \/ PortStep(lcd_task_check_exit)
    \/ PortStep(lcd_task_check_backlight)
    \/ PortStep(lcd_task_check_rotation)
    \/ PortStep(lcd_task_check_func)
    \/ /\ lcd_draw_ports_led
       /\ port_hist' =
              [port_hist EXCEPT ![PortOrder[port_pos']] =
                   IF port_flags[PortOrder[port_pos']] THEN "shown" ELSE @]
       /\ PortKeep
    \/ /\ lcd_task_draw_ports
       /\ port_hist' =
              [f \in PortFlags |->
                   IF draw_func = "lcd_draw_ports" /\ ~first
                      /\ port_hist[f] = "shown"
                   THEN "clear" ELSE port_hist[f]]
       /\ PortKeep
    \/ PortStep(lcd_task_send)
    \/ PortStep(lcd_task_count)
    \/ PortStep(lcd_task_sleep)

SpecPorts == Init /\ [][PortNext]_vars

\* C13: a flag that core 0 has set stays set until lcd_draw_ports has
\* drawn it active, whatever core 0 and lcd_draw_ports do in between, and
\* a flag drawn active is cleared before the next frame is drawn: so every
\* access is drawn active in one frame and idle in the next.
C13_PortPulse ==
    \A f \in PortFlags :
        /\ port_hist[f] = "set" => port_flags[f]
        /\ port_flags[f] => port_hist[f] \in {"set", "shown"}
        /\ port_hist[f] = "shown" => port_pos > 0

\* C29: a flag goes from set to clear only in the memset that ends
\* lcd_draw_ports(false), which clears them all; lcd_draw_ports(true) and
\* every other draw function leave the flags as they are; so a flag set
\* before lcd_draw_ports(false) begins is still set when its loop comes to
\* it, and is drawn active there.
C29_FlagsAccumulate ==
    /\ [][(\E f \in PortFlags : port_flags[f] /\ ~port_flags'[f]) =>
              /\ task_pc = "draw"
              /\ task_pc' = "send"
              /\ draw_func = "lcd_draw_ports"
              /\ ~first
              /\ port_pos = Len(PortOrder)
              /\ \A f \in PortFlags : ~port_flags'[f]]_vars
    /\ [][(/\ task_pc = "draw"
           /\ task_pc' # "draw"
           /\ first \/ draw_func # "lcd_draw_ports") =>
              port_flags' = port_flags]_vars
    /\ [][(/\ task_pc = "draw"
           /\ port_pos' = port_pos + 1
           /\ port_flags[PortOrder[port_pos']]) =>
              /\ draw_func = "lcd_draw_ports"
              /\ ~first
              /\ port_hist'[PortOrder[port_pos']] = "shown"
              /\ port_flags'[PortOrder[port_pos']]]_vars

\* a first frame and the static content of the ports panel were drawn, and
\* the loop of the first lcd_draw_ports(false) has drawn every flag active
C29_Witness ==
    /\ task_pc = "draw"
    /\ draw_func = "lcd_draw_ports"
    /\ ~first
    /\ last_drawn = "lcd_draw_ports"
    /\ last_first
    /\ lcd_frame_cnt = <<0, 2>>
    /\ port_pos = Len(PortOrder)
    /\ \A f \in PortFlags : port_flags[f] /\ port_hist[f] = "shown"

(***************************************************************************)
(* The frame counter.  The two cores run from lcd_init, and from the       *)
(* frames at which the low half and the whole of lcd_frame_cnt are about   *)
(* to wrap, with the operations of core 0 that read or could write the     *)
(* counter and with lcd_draw_drives.                                       *)
(***************************************************************************)
\* x + n in uint32_t arithmetic, for n below 2^16
U32_Add(x, n) ==
    <<(x[1] + ((x[2] + n) \div UINT16_MOD)) % UINT16_MOD,
      (x[2] + n) % UINT16_MOD>>

\* the frame counters the runs begin with: 0, 2^16 - 1 and 2^32 - 1
CountStarts ==
    {<<0, 0>>, <<0, UINT16_MOD - 1>>, <<UINT16_MOD - 1, UINT16_MOD - 1>>}

CountStep(step) ==
    step /\ UNCHANGED <<written, panel_hist, drive_hist, port_vars, tail_vars>>

CountNext ==
    \/ upd.pc = "idle" /\ Plain(lcd_brightness(40))
    \/ upd.pc = "idle" /\ Plain(lcd_status_disp("LCD_STATUS_DRIVES"))
    \/ upd.pc = "idle" /\ Plain(lcd_status_next)
    \/ \E sector \in {0, 1} :
          CountStep(lcd_update_drive_fields(7, sector, 128, TRUE, TRUE))
    \/ CountStep(lcd_update_drive_lastacc)
    \/ CountStep(lcd_update_drive_led)
    \/ upd.pc = "idle" /\ Plain(lcd_exit_request)
    \/ Plain(lcd_exit_poll)
    \/ Plain(lcd_exit_sleep)
    \/ Plain(lcd_exit_reset)
    \/ Plain(lcd_task_init)
    \/ /\ \/ \E k \in CountStarts, i \in 0..(MaxCountFrames - 1) :
                lcd_frame_cnt = U32_Add(k, i)
          \/ main_pc # "run"
       /\ Plain(lcd_task_start)
    \/ Plain(lcd_task_check_exit)
    \/ Plain(lcd_task_check_backlight)
    \/ Plain(lcd_task_check_rotation)
    \/ Plain(lcd_task_check_func)
    \/ /\ lcd_task_draw
       /\ IF draw_func = "lcd_draw_drives"
          THEN lcd_draw_drives(first)
          ELSE UNCHANGED lcd_drives
       /\ UNCHANGED <<upd, written, panel_hist, drive_hist, port_vars,
                      tail_vars>>
    \/ Plain(lcd_task_send)
    \/ Plain(lcd_task_count)
    \/ Plain(lcd_task_sleep)
    \/ Plain(lcd_task_dev_exit)
    \/ Plain(lcd_task_set_done)

SpecCount ==
    /\ \/ Init
       \/ \E k \in CountStarts \ {<<0, 0>>} : AfterFrames(k)
    /\ [][CountNext]_vars

\* C14: lcd_frame_cnt is 0 when lcd_init has launched lcd_task; the
\* statement lcd_frame_cnt++ adds one modulo 2^32, once in an iteration,
\* after the draw function was called and the frame was sent; no other
\* step of lcd_task (none of the iteration that reads NULL in the exit
\* check, and none of lcd_draw_drives) and no operation of core 0 changes
\* it.
C14_FrameCounter ==
    /\ [](task_pc = "init" => lcd_frame_cnt = <<0, 0>>)
    /\ [](sentinel_seen => calls.count = 0)
    /\ [](calls.count \in {0, 1})
    /\ [][TaskAt("count") =>
            /\ calls.draw = 1 /\ calls.send = 1 /\ calls.count = 0
            /\ calls'.count = 1
            /\ IF lcd_frame_cnt[2] < UINT16_MOD - 1
               THEN lcd_frame_cnt' = <<lcd_frame_cnt[1], lcd_frame_cnt[2] + 1>>
               ELSE IF lcd_frame_cnt[1] < UINT16_MOD - 1
               THEN lcd_frame_cnt' = <<lcd_frame_cnt[1] + 1, 0>>
               ELSE lcd_frame_cnt' = <<0, 0>>]_vars
    /\ [][~TaskAt("count") => UNCHANGED lcd_frame_cnt]_vars

\* the counter has wrapped from 2^32 - 1 to 0 and core 0 has recorded the
\* new value in lcd_update_drive
C14_Witness ==
    /\ lcd_frame_cnt = <<0, 0>>
    /\ calls.count = 1
    /\ lcd_drives.sector = 1
    /\ lcd_drives.lastacc = <<0, 0>>

(***************************************************************************)
(* The frame period.  elapsed is the time since lcd_task read t at the     *)
(* beginning of the iteration; the draw function takes no time, nearly a   *)
(* period or two periods, the transfer of the frame no time or a           *)
(* microsecond.  pace.d and pace.slept are d and the argument of sleep_us  *)
(* (0: not called) of the latest iteration that came to line 156,          *)
(* pace.late_before tells that the iteration before it was late, pace.done *)
(* counts these iterations.                                                *)
(***************************************************************************)
\* line 101
LCD_REFRESH_US == 1000000 \div LCD_REFRESH

\* sleep_us called for the whole period
SleepTime_whole_period(d) == IF d < LCD_REFRESH_US THEN LCD_REFRESH_US ELSE 0

\* lines 158-159: if (d < LCD_REFRESH_US) sleep_us(LCD_REFRESH_US - d)
SleepTime(d) == IF d < LCD_REFRESH_US THEN LCD_REFRESH_US - d ELSE 0

\* a step of the specification that takes us microseconds
Timed(step, us) ==
    /\ step
    /\ elapsed' = elapsed + us
    /\ UNCHANGED <<pace, written, panel_hist, lcd_drives, upd, drive_hist,
                   port_vars, info_vars, reg_vars, pix_vars, disk_vars>>

PaceNext ==
    \/ Timed(lcd_brightness(40), 0)
    \/ Timed(lcd_task_init, 0)
    \/ FrameBound(MaxPaceFrames) /\ Timed(lcd_task_start, 0 - elapsed)
    \/ Timed(lcd_task_check_exit, 0)
    \/ Timed(lcd_task_check_backlight, 0)
    \/ Timed(lcd_task_check_rotation, 0)
    \/ Timed(lcd_task_check_func, 0)
    \/ \E us \in {0, LCD_REFRESH_US - 1, 2 * LCD_REFRESH_US} :
          Timed(lcd_task_draw, us)
    \/ \E us \in {0, 1} : Timed(lcd_task_send, us)
    \/ Timed(lcd_task_count, 0)
    \/ /\ lcd_task_sleep
       /\ pace' = [done |-> pace.done + 1,
                   d |-> elapsed,
                   slept |-> SleepTime(elapsed),
                   late_before |-> pace.done > 0 /\ pace.slept = 0]
       /\ elapsed' = elapsed + SleepTime(elapsed)
       /\ UNCHANGED <<written, panel_hist, lcd_drives, upd, drive_hist,
                      port_vars, info_vars, reg_vars, pix_vars, disk_vars>>

SpecPace == Init /\ [][PaceNext]_vars

\* C15: at the end of an iteration lcd_task calls sleep_us exactly when
\* the time d since the beginning of the iteration is below the frame
\* period, and then for the period less d, whether or not the iteration
\* before was late; after a late iteration the next one begins at once
\* and, when it comes to its end, has called the draw function once and
\* sent one frame.
C15_FramePacing ==
    /\ pace.done > 0 =>
           /\ (pace.slept > 0) = (pace.d < 1000000 \div LCD_REFRESH)
           /\ pace.slept > 0 =>
                  pace.d + pace.slept = 1000000 \div LCD_REFRESH
    /\ (task_pc = "loop" /\ pace.done > 0) =>
           /\ elapsed = pace.d + pace.slept
           /\ elapsed >= 1000000 \div LCD_REFRESH
           /\ pace.slept = 0 => elapsed = pace.d
    /\ (task_pc \in {"count", "sleep"}) =>
           calls.draw = 1 /\ calls.send = 1

\* an iteration that follows a late one has slept the period less its own d
C15_Witness ==
    /\ pace.late_before
    /\ pace.d = 1
    /\ pace.slept = (1000000 \div LCD_REFRESH) - 1
    /\ task_pc = "loop"
    /\ calls.draw = 1
    /\ calls.send = 1

(***************************************************************************)
(* Claims about the order of the calls in an iteration of lcd_task.        *)
(***************************************************************************)
\* C16: an iteration of lcd_task that has passed the exit check polls
\* lcd_backlight, lcd_rotated and lcd_draw_func before it calls the draw
\* function, calls the draw function once, then sends the frame once,
\* then counts the frame; it sends no frame it has not drawn, and it does
\* not stop before it has done all three.
C16_RenderSendCount ==
    /\ (task_pc \in {"check_exit", "check_backlight", "check_rotation",
                     "check_func", "draw"}) =>
           calls.draw = 0 /\ calls.send = 0 /\ calls.count = 0
    /\ task_pc = "send" =>
           calls.draw = 1 /\ calls.send = 0 /\ calls.count = 0
    /\ task_pc = "count" =>
           calls.draw = 1 /\ calls.send = 1 /\ calls.count = 0
    /\ task_pc = "sleep" =>
           calls.draw = 1 /\ calls.send = 1 /\ calls.count = 1
    /\ task_pc # "fault"

(***************************************************************************)
(* The control operations of core 0 called at any time, also after         *)
(* lcd_custom_disp(NULL) has made lcd_task leave its loop, without         *)
(* lcd_exit.                                                               *)
(***************************************************************************)
OwnerNext ==
    \/ upd.pc = "idle" /\ Plain(lcd_brightness(40))
    \/ upd.pc = "idle" /\ Plain(lcd_set_rotation(TRUE))
    \/ upd.pc = "idle" /\ Plain(lcd_update_led)
    \/ \E f \in CustomFuncs : upd.pc = "idle" /\ Plain(lcd_custom_disp(f))
    \/ upd.pc = "idle" /\ Plain(lcd_status_disp("LCD_STATUS_DRIVES"))
    \/ upd.pc = "idle" /\ Plain(lcd_status_next)
    \/ \E rdwr \in BOOLEAN :
          CountStep(lcd_update_drive_fields(7, 1, 128, rdwr, TRUE))
    \/ CountStep(lcd_update_drive_lastacc)
    \/ CountStep(lcd_update_drive_led)
    \/ Plain(lcd_task_init)
    \/ FrameBound(MaxChanFrames) /\ Plain(lcd_task_start)
    \/ Plain(lcd_task_check_exit)
    \/ Plain(lcd_task_check_backlight)
    \/ Plain(lcd_task_check_rotation)
    \/ Plain(lcd_task_check_func)
    \/ /\ lcd_task_draw
       /\ IF draw_func = "lcd_draw_drives"
          THEN lcd_draw_drives(first)
          ELSE UNCHANGED lcd_drives
       /\ UNCHANGED <<upd, written, panel_hist, drive_hist, port_vars,
                      tail_vars>>
    \/ Plain(lcd_task_send)
    \/ Plain(lcd_task_count)
    \/ Plain(lcd_task_sleep)
    \/ Plain(lcd_task_dev_exit)
    \/ Plain(lcd_task_set_done)

SpecOwner == Init /\ [][OwnerNext]_vars

\* C17: wherever lcd_task is (polling, inside a draw function, sleeping,
\* halted after its loop, or stopped by a fault), each of lcd_status_disp,
\* lcd_status_next, lcd_custom_disp, lcd_brightness, lcd_set_rotation and
\* lcd_update_led can be executed and is one step of core 0, and
\* lcd_update_drive can take each of its three steps: none of them waits
\* for a step of lcd_task.
C17_NeverBlocks ==
    /\ \A w \in Selectors : ENABLED lcd_status_disp(w)
    /\ ENABLED lcd_status_next
    /\ \A f \in CustomFuncs : ENABLED lcd_custom_disp(f)
    /\ \A b \in Brightness : ENABLED lcd_brightness(b)
    /\ \A r \in BOOLEAN : ENABLED lcd_set_rotation(r)
    /\ ENABLED lcd_update_led
    /\ upd.pc \in {"idle", "lastacc", "led"}
    /\ upd.pc = "idle" =>
           \A rdwr, active \in BOOLEAN :
               ENABLED lcd_update_drive_fields(7, 1, 128, rdwr, active)
    /\ upd.pc = "lastacc" => ENABLED lcd_update_drive_lastacc
    /\ upd.pc = "led" => ENABLED lcd_update_drive_led

\* lcd_task has halted, core 0 is inside lcd_update_drive
C17_Witness ==
    /\ task_pc = "halt"
    /\ lcd_task_done
    /\ main_pc = "run"
    /\ upd.pc = "led"

(***************************************************************************)
(* The info line.  lcd_draw_info is called last by lcd_draw_cpu_reg,       *)
(* lcd_draw_panel, lcd_draw_drives and lcd_draw_ports, with their first.   *)
(* info.kind is what the draw function of the latest frame made of it      *)
(* ("static": called with first, "dynamic": called without, "none": not    *)
(* called), info.before the same of the frame before; info.values tells    *)
(* that the latest call drew temperature and frequency, info.led_drawn and *)
(* info.led that and in which colour it drew the LED; info.gap counts the  *)
(* calls since the latest one that drew the values, info.gap_before is     *)
(* that count as the latest call found it.                                 *)
(***************************************************************************)
\* the draw functions that end with lcd_draw_info (lines 575, 939, 1021)
InfoPanels ==
    {"lcd_draw_cpu_reg", "lcd_draw_panel", "lcd_draw_drives", "lcd_draw_ports"}

\* line 292 with > in place of >=
InfoDue_late(cnt, last) == U32_AtLeast(U32_Sub(cnt, last), LCD_REFRESH + 1)

\* line 292: lcd_frame_cnt - last_upd >= LCD_REFRESH
InfoDue(cnt, last) == U32_AtLeast(U32_Sub(cnt, last), LCD_REFRESH)

\* lcd_draw_info(font, first): lines 287 and 293
lcd_draw_info(is_first) ==
    last_upd' =
        IF is_first THEN U32_Add(U32_Sub(lcd_frame_cnt, <<0, LCD_REFRESH>>), 1)
        ELSE IF InfoDue(lcd_frame_cnt, last_upd) THEN lcd_frame_cnt
        ELSE last_upd

\* Core 0 selects panels and changes the LED colour while lcd_task draws
\* frames; the draw step ends with the call of lcd_draw_info where the
\* draw function has one.
InfoNext ==
    \/ \E which \in {"LCD_STATUS_DRIVES", "LCD_STATUS_PORTS",
                     "LCD_STATUS_MEMORY"} : Plain(lcd_status_disp(which))
    \/ \E color \in LedColors : Plain(set_led_color(color))
    \/ Plain(lcd_update_led)
    \/ Plain(lcd_task_init)
    \/ FrameBound(2 * LCD_REFRESH + 2) /\ Plain(lcd_task_start)
    \/ Plain(lcd_task_check_exit)
    \/ Plain(lcd_task_check_backlight)
    \/ Plain(lcd_task_check_rotation)
    \/ Plain(lcd_task_check_func)
    \/ /\ lcd_task_draw
       /\ IF draw_func = "lcd_draw_drives"
          THEN lcd_draw_drives(first)
          ELSE UNCHANGED lcd_drives
       /\ IF draw_func \in InfoPanels
          THEN /\ lcd_draw_info(first)
               /\ LET values == ~first /\ InfoDue(lcd_frame_cnt, last_upd) IN
                    info' = [kind |-> IF first THEN "static" ELSE "dynamic",
                             before |-> info.kind,
                             values |-> values,
                             led_drawn |-> ~first,
                             led |-> IF first THEN info.led
                                     ELSE lcd_led_color,
                             gap |-> IF first \/ values THEN 0
                                     ELSE info.gap + 1,
                             gap_before |-> info.gap]
          ELSE /\ UNCHANGED last_upd
               /\ info' = [info EXCEPT !.kind = "none",
                                       !.before = info.kind,
                                       !.values = FALSE,
                                       !.led_drawn = FALSE,
                                       !.gap = 0,
                                       !.gap_before = info.gap]
       /\ UNCHANGED <<upd, written, panel_hist, drive_hist, port_vars,
                      pace_vars, reg_vars, pix_vars, disk_vars>>
    \/ Plain(lcd_task_send)
    \/ Plain(lcd_task_count)
    \/ Plain(lcd_task_sleep)

SpecInfo == Init /\ [][InfoNext]_vars

\* C18: a call of lcd_draw_info with first draws neither the temperature
\* and frequency texts nor the LED; the call without first in the frame
\* after it draws the texts; from then on, in an unbroken run of calls
\* without first, one per frame, a call draws the texts exactly when
\* LCD_REFRESH - 1 calls since the latest one that drew them did not; and
\* every call without first draws the LED in the colour lcd_led_color
\* holds at that call.
C18_OverlayCadence ==
    /\ [](/\ info.kind = "static" => ~info.values /\ ~info.led_drawn
          /\ info.kind = "dynamic" =>
                /\ info.led_drawn
                /\ info.before \in {"static", "dynamic"}
                /\ info.before = "static" => info.values
                /\ info.before = "dynamic" =>
                      (info.values <=> info.gap_before = LCD_REFRESH - 1))
    /\ [][(info' # info /\ info'.kind = "dynamic") =>
              info'.led = lcd_led_color]_vars

C18_Witness ==
    /\ info.kind = "dynamic"
    /\ info.before = "dynamic"
    /\ info.values
    /\ info.gap_before = LCD_REFRESH - 1
    /\ info.led = C_RED

(***************************************************************************)
(* The registers panel.  lcd_draw_cpu_reg compares its static cpu_type     *)
(* with cpu, which core 0 changes at any time; cpu is read once for the    *)
(* comparison at line 462 and once more for the assignment at line 463,    *)
(* with nothing that keeps core 0 from writing it in between.  reg_pc is   *)
(* "enter" before the comparison, "store" after a comparison that found a  *)
(* difference and "same" after one that found none.                        *)
(* reg_hist describes the latest call: seen is cpu as the comparison read  *)
(* it, prev is cpu_type as the call found it, passed is first as lcd_task  *)
(* passed it, kind is "static" or "dynamic" by the branch of line 482      *)
(* taken, table and grid are rp and grid as that branch used them and      *)
(* info_first is first as handed to lcd_draw_info.                         *)
(***************************************************************************)
CpuTypes == {"Z80", "I8080"}

\* the emulator on core 0 changes the CPU variant ("cpu can change",
\* line 467)
switch_cpu(new_cpu) ==
    /\ main_pc = "run"
    /\ cpu' = new_cpu
    /\ UNCHANGED <<chan_vars, core0_vars, cpu_type, grid, reg_pc>>
    /\ core1_unchanged

\* lines 469-480: rp = regs_z80 or rp = regs_8080, NULL for anything else
RegTable(type) ==
    CASE type = "Z80" -> "regs_z80"
      [] type = "I8080" -> "regs_8080"
      [] OTHER -> NULL

\* lines 488-515: draw_setup_grid with 5 rows of font20 for the Z80, with
\* 4 rows of font28 for the 8080, and no call for anything else
RegGrid(type, old_grid) ==
    CASE type = "Z80" -> [font |-> "font20", rows |-> 5]
      [] type = "I8080" -> [font |-> "font28", rows |-> 4]
      [] OTHER -> old_grid

\* first as lcd_task passed it
RegFirst_as_passed(is_first, changed) == is_first

\* lines 462-465: first = true when cpu_type != cpu
RegFirst(is_first, changed) == is_first \/ changed

\* line 462: if (cpu_type != cpu)
lcd_draw_cpu_reg_compare ==
    /\ task_pc = "draw"
    /\ draw_func = "lcd_draw_cpu_reg"
    /\ reg_pc = "enter"
    /\ reg_pc' = IF cpu_type # cpu THEN "store" ELSE "same"
    /\ UNCHANGED <<cpu, cpu_type, grid, last_upd>>
    /\ UNCHANGED <<task_vars, dev_vars, iter_vars, lcd_task_done,
                   lcd_frame_cnt>>
    /\ core0_unchanged

\* lines 463-575 and the return to lcd_task: cpu_type = cpu after a
\* comparison that found a difference, the static or the dynamic branch,
\* lcd_draw_info(&font20, first)
lcd_draw_cpu_reg ==
    /\ lcd_task_draw
    /\ draw_func = "lcd_draw_cpu_reg"
    /\ reg_pc # "enter"
    /\ cpu_type' = IF reg_pc = "store" THEN cpu ELSE cpu_type
    /\ grid' = IF RegFirst(first, reg_pc = "store")
               THEN RegGrid(cpu_type', grid)
               ELSE grid
    /\ lcd_draw_info(RegFirst(first, reg_pc = "store"))
    /\ reg_pc' = "enter"
    /\ UNCHANGED cpu

RegNext ==
    \/ \E which \in {"LCD_STATUS_REGISTERS", "LCD_STATUS_MEMORY"} :
          Plain(lcd_status_disp(which))
    \/ \E new_cpu \in CpuTypes :
          /\ switch_cpu(new_cpu)
          /\ UNCHANGED <<written, panel_hist, lcd_drives, upd, drive_hist,
                         port_vars, pace_vars, info_vars, reg_hist, cells,
                         pix_vars, disk_vars>>
    \/ Plain(lcd_task_init)
    \/ FrameBound(MaxRegFrames) /\ Plain(lcd_task_start)
    \/ Plain(lcd_task_check_exit)
    \/ Plain(lcd_task_check_backlight)
    \/ Plain(lcd_task_check_rotation)
    \/ Plain(lcd_task_check_func)
    \/ /\ lcd_draw_cpu_reg_compare
       /\ reg_hist' = [reg_hist EXCEPT !.kind = "none", !.seen = cpu,
                                       !.prev = cpu_type, !.passed = first]
       /\ UNCHANGED <<written, panel_hist, lcd_drives, upd, drive_hist,
                      port_vars, pace_vars, info, cells, pix_vars, disk_vars>>
    \/ /\ lcd_draw_cpu_reg
       /\ reg_hist' =
              [reg_hist EXCEPT
                   !.kind = IF RegFirst(first, reg_pc = "store")
                            THEN "static" ELSE "dynamic",
                   !.table = RegTable(cpu_type'),
                   !.grid = grid',
                   !.info_first = RegFirst(first, reg_pc = "store")]
       /\ UNCHANGED <<written, panel_hist, lcd_drives, upd, drive_hist,
                      port_vars, pace_vars, info, cells, pix_vars, disk_vars>>
    \/ /\ lcd_task_draw
       /\ draw_func # "lcd_draw_cpu_reg"
       /\ UNCHANGED <<written, panel_hist, ext_vars>>
    \/ Plain(lcd_task_send)
    \/ Plain(lcd_task_count)
    \/ Plain(lcd_task_sleep)

SpecReg == Init /\ [][RegNext]_vars

\* C19: a call of lcd_draw_cpu_reg that finds cpu different from the
\* cpu_type its previous call recorded takes the static branch, sets up
\* the grid for the variant it records and hands first = true to
\* lcd_draw_info, also when lcd_task passed first = false; and every call
\* that takes the dynamic branch uses the descriptor table and the grid of
\* one and the same CPU variant.
C19_VariantChangeIsFirst ==
    reg_hist.kind # "none" =>
        /\ reg_hist.seen # reg_hist.prev =>
              /\ reg_hist.kind = "static"
              /\ reg_hist.info_first
              /\ cpu_type \in CpuTypes
              /\ grid = RegGrid(cpu_type, NoGrid)
        /\ reg_hist.kind = "dynamic" =>
              \E type \in CpuTypes :
                  /\ reg_hist.table = RegTable(type)
                  /\ reg_hist.grid = RegGrid(type, NoGrid)

C19_Witness ==
    /\ reg_hist.kind = "static"
    /\ ~reg_hist.passed
    /\ reg_hist.prev = "Z80"
    /\ reg_hist.seen = "I8080"
    /\ reg_hist.table = "regs_8080"
    /\ task_pc = "send"

(***************************************************************************)
(* The dynamic branch of lcd_draw_cpu_reg.  A descriptor is a record with  *)
(* the fields x, y, type and l of reg_t, with p the name of the register   *)
(* its pointer refers to (for RF and RI the register the colour is taken   *)
(* from, F and IFF, for RR the register R) and with c the character code   *)
(* of f.c (0 where the union holds a pointer).  Characters are ASCII       *)
(* codes, '0' is 48 and 'A' is 65.  The colour of a character is not part  *)
(* of a cell.  cells.drawn is the set of grid cells the latest redraw drew *)
(* into, each with the character it holds at the end of the redraw, and    *)
(* cells.file the values of the registers of the emulator at the redraw.   *)
(***************************************************************************)
\* lines 386-417
regs_z80 ==
    <<[x |-> 4, y |-> 0, type |-> "RB", l |-> "AF", p |-> "A", c |-> 0],
      [x |-> 6, y |-> 0, type |-> "RJ", l |-> NULL, p |-> "F", c |-> 0],
      [x |-> 12, y |-> 0, type |-> "RB", l |-> "BC", p |-> "B", c |-> 0],
      [x |-> 14, y |-> 0, type |-> "RB", l |-> NULL, p |-> "C", c |-> 0],
      [x |-> 20, y |-> 0, type |-> "RB", l |-> "DE", p |-> "D", c |-> 0],
      [x |-> 22, y |-> 0, type |-> "RB", l |-> NULL, p |-> "E", c |-> 0],
      [x |-> 4, y |-> 1, type |-> "RB", l |-> "HL", p |-> "H", c |-> 0],
      [x |-> 6, y |-> 1, type |-> "RB", l |-> NULL, p |-> "L", c |-> 0],
      [x |-> 14, y |-> 1, type |-> "RW", l |-> "SP", p |-> "SP", c |-> 0],
      [x |-> 22, y |-> 1, type |-> "RW", l |-> "PC", p |-> "PC", c |-> 0],
      [x |-> 4, y |-> 2, type |-> "RB", l |-> "AF'", p |-> "A_", c |-> 0],
      [x |-> 6, y |-> 2, type |-> "RJ", l |-> NULL, p |-> "F_", c |-> 0],
      [x |-> 12, y |-> 2, type |-> "RB", l |-> "BC'", p |-> "B_", c |-> 0],
      [x |-> 14, y |-> 2, type |-> "RB", l |-> NULL, p |-> "C_", c |-> 0],
      [x |-> 20, y |-> 2, type |-> "RB", l |-> "DE'", p |-> "D_", c |-> 0],
      [x |-> 22, y |-> 2, type |-> "RB", l |-> NULL, p |-> "E_", c |-> 0],
      [x |-> 4, y |-> 3, type |-> "RB", l |-> "HL'", p |-> "H_", c |-> 0],
      [x |-> 6, y |-> 3, type |-> "RB", l |-> NULL, p |-> "L_", c |-> 0],
      [x |-> 14, y |-> 3, type |-> "RW", l |-> "IX", p |-> "IX", c |-> 0],
      [x |-> 22, y |-> 3, type |-> "RW", l |-> "IY", p |-> "IY", c |-> 0],
      [x |-> 3, y |-> 4, type |-> "RF", l |-> NULL, p |-> "F", c |-> 83],
      [x |-> 4, y |-> 4, type |-> "RF", l |-> "F", p |-> "F", c |-> 90],
      [x |-> 5, y |-> 4, type |-> "RF", l |-> NULL, p |-> "F", c |-> 72],
      [x |-> 6, y |-> 4, type |-> "RF", l |-> NULL, p |-> "F", c |-> 80],
      [x |-> 7, y |-> 4, type |-> "RF", l |-> NULL, p |-> "F", c |-> 78],
      [x |-> 8, y |-> 4, type |-> "RF", l |-> NULL, p |-> "F", c |-> 67],
      [x |-> 13, y |-> 4, type |-> "RI", l |-> NULL, p |-> "IFF", c |-> 49],
      [x |-> 14, y |-> 4, type |-> "RI", l |-> "IF", p |-> "IFF", c |-> 50],
      [x |-> 20, y |-> 4, type |-> "RB", l |-> "IR", p |-> "I", c |-> 0],
      [x |-> 22, y |-> 4, type |-> "RR", l |-> NULL, p |-> "R", c |-> 0]>>

\* lines 428-445
regs_8080 ==
    <<[x |-> 4, y |-> 0, type |-> "RB", l |-> "AF", p |-> "A", c |-> 0],
      [x |-> 6, y |-> 0, type |-> "RJ", l |-> NULL, p |-> "F", c |-> 0],
      [x |-> 13, y |-> 0, type |-> "RB", l |-> "BC", p |-> "B", c |-> 0],
      [x |-> 15, y |-> 0, type |-> "RB", l |-> NULL, p |-> "C", c |-> 0],
      [x |-> 4, y |-> 1, type |-> "RB", l |-> "DE", p |-> "D", c |-> 0],
      [x |-> 6, y |-> 1, type |-> "RB", l |-> NULL, p |-> "E", c |-> 0],
      [x |-> 13, y |-> 1, type |-> "RB", l |-> "HL", p |-> "H", c |-> 0],
      [x |-> 15, y |-> 1, type |-> "RB", l |-> NULL, p |-> "L", c |-> 0],
      [x |-> 6, y |-> 2, type |-> "RW", l |-> "SP", p |-> "SP", c |-> 0],
      [x |-> 15, y |-> 2, type |-> "RW", l |-> "PC", p |-> "PC", c |-> 0],
      [x |-> 3, y |-> 3, type |-> "RF", l |-> NULL, p |-> "F", c |-> 83],
      [x |-> 4, y |-> 3, type |-> "RF", l |-> "F", p |-> "F", c |-> 90],
      [x |-> 5, y |-> 3, type |-> "RF", l |-> NULL, p |-> "F", c |-> 72],
      [x |-> 6, y |-> 3, type |-> "RF", l |-> NULL, p |-> "F", c |-> 80],
      [x |-> 7, y |-> 3, type |-> "RF", l |-> NULL, p |-> "F", c |-> 67],
      [x |-> 15, y |-> 3, type |-> "RI", l |-> "IF", p |-> "IFF", c |-> 49]>>

\* line 564 with 'a' in place of 'A'
HexChar_lowercase(c) == c + (IF c < 10 THEN 48 ELSE 97 - 10)

\* line 564: c += (c < 10 ? '0' : 'A' - 10)
HexChar(c) == c + (IF c < 10 THEN 48 ELSE 65 - 10)

\* draw_grid_char(x, y, c, &grid, fgc, bgc): the cell at x, y holds c
draw_grid_char(drawn, x, y, c) ==
    {t \in drawn : ~(t.x = x /\ t.y = y)} \cup {[x |-> x, y |-> y, c |-> c]}

\* lines 561-568: while (j--) { c = w & 0xf; c += ...;
\* draw_grid_char(x--, rp->y, c, ...); w >>= 4; } with uint16_t x
RECURSIVE RegDrawDigits(_, _, _, _, _)
RegDrawDigits(drawn, x, y, w, j) ==
    IF j = 0 THEN drawn
    ELSE RegDrawDigits(draw_grid_char(drawn, x, y, HexChar(w % 16)),
                       (x + UINT16_MOD - 1) % UINT16_MOD, y, w \div 16,
                       j - 1)

\* lines 529-569: the loop over the first n descriptors of rp; file holds
\* the values of the registers of the emulator.  What the n-th descriptor
\* draws goes over what the descriptors before it drew.
RECURSIVE RegDrawAll(_, _, _)
RegDrawAll(rp, file, n) ==
    IF n = 0 THEN {}
    ELSE LET r == rp[n]
             w == CASE r.type = "RB" -> file[r.p] % UINT8_MOD
                    [] r.type = "RW" -> file[r.p] % UINT16_MOD
                    [] r.type = "RJ" -> file[r.p] % UINT16_MOD
                    [] r.type = "RR" ->
                          ((file["R_"] \div 128) % 2) * 128
                              + (file["R"] % 128)
                    [] OTHER -> 0
             j == CASE r.type = "RW" -> 4
                    [] r.type \in {"RB", "RJ", "RR"} -> 2
                    [] OTHER -> 0
             field == IF r.type \in {"RF", "RI"}
                      THEN draw_grid_char({}, r.x, r.y, r.c)
                      ELSE RegDrawDigits({}, r.x, r.y, w, j)
             before == RegDrawAll(rp, file, n - 1)
         IN {t \in before :
                \A u \in field : ~(u.x = t.x /\ u.y = t.y)} \cup field

\* the registers the descriptors refer to
RegNames ==
    {regs_z80[k].p : k \in 1..Len(regs_z80)} \cup {"R_"}

\* values of a register: every byte, and words with a high byte
RegValues == 0..(UINT8_MOD - 1) \cup {4660, 16128, 43981, UINT16_MOD - 1}

\* The emulator leaves v in the register of the i-th descriptor of a table
\* and b in every other register; lcd_draw_cpu_reg(false) then redraws.
HexNext ==
    \/ /\ cells.table = NULL
       /\ \E type \in CpuTypes, v \in RegValues, b \in {0, UINT8_MOD - 1} :
            LET regs == IF type = "Z80" THEN regs_z80 ELSE regs_8080 IN
              \E i \in 1..Len(regs) :
                 cells' = [table |-> RegTable(type), i |-> i, v |-> v,
                           file |-> [n \in RegNames |->
                                        IF n # regs[i].p THEN b
                                        ELSE IF regs[i].type = "RW" THEN v
                                        ELSE v % UINT8_MOD],
                           done |-> FALSE, drawn |-> {}]
       /\ UNCHANGED <<chan_vars, lcd_task_done, lcd_frame_cnt, core0_vars,
                      task_vars, dev_vars, iter_vars, written, panel_hist,
                      lcd_drives, upd, drive_hist, port_vars, pace_vars,
                      info_vars, cpu, cpu_type, grid, reg_pc, reg_hist,
                      pix_vars, disk_vars>>
    \/ /\ cells.table # NULL
       /\ ~cells.done
       /\ LET regs == IF cells.table = "regs_z80" THEN regs_z80 ELSE regs_8080
          IN cells' = [cells EXCEPT
                           !.done = TRUE,
                           !.drawn = RegDrawAll(regs, cells.file, Len(regs))]
       /\ UNCHANGED <<chan_vars, lcd_task_done, lcd_frame_cnt, core0_vars,
                      task_vars, dev_vars, iter_vars, written, panel_hist,
                      lcd_drives, upd, drive_hist, port_vars, pace_vars,
                      info_vars, cpu, cpu_type, grid, reg_pc, reg_hist,
                      pix_vars, disk_vars>>

SpecHex == Init /\ [][HexNext]_vars

\* the characters 0123456789ABCDEF
HexDigits == <<48, 49, 50, 51, 52, 53, 54, 55, 56, 57, 65, 66, 67, 68, 69, 70>>

\* the cells of the value of a descriptor: x - width + 1 to x in row y
FieldCells(r) ==
    {<<r.x - k, r.y>> :
        k \in 0..((CASE r.type = "RW" -> 4
                     [] r.type \in {"RB", "RJ", "RR"} -> 2
                     [] OTHER -> 1) - 1)}

\* the cells of the label of a descriptor (lines 517-524)
LabelCells(r) ==
    IF r.l = NULL THEN {}
    ELSE {<<r.x - (IF r.type = "RW" THEN 6 ELSE 4)
                + (IF r.type = "RI" THEN 1 ELSE 0) + k, r.y>> :
             k \in 0..(Len(r.l) - 1)}

\* C20: after a redraw with first = false, a field of type RB (or RJ) at
\* column x whose register holds v in 0..255 shows the upper-case
\* hexadecimal digit of v mod 16 at column x and that of v div 16 at
\* column x - 1 of its row; a field of type RW shows the four digits of
\* its 16-bit value at columns x - 3 to x, the least significant at x;
\* and every cell drawn into is a value cell of a descriptor of the table,
\* none the cell of a label.
C20_HexRedraw ==
    cells.done =>
        LET rp == IF cells.table = "regs_z80" THEN regs_z80 ELSE regs_8080
            r == rp[cells.i]
            v == cells.v
            Shows(x, n) ==
                [x |-> x, y |-> r.y, c |-> HexDigits[n + 1]] \in cells.drawn
        IN /\ (r.type \in {"RB", "RJ"} /\ v < UINT8_MOD) =>
                 /\ Shows(r.x, v % 16)
                 /\ Shows(r.x - 1, v \div 16)
           /\ r.type = "RW" =>
                 /\ Shows(r.x, v % 16)
                 /\ Shows(r.x - 1, (v \div 16) % 16)
                 /\ Shows(r.x - 2, (v \div 256) % 16)
                 /\ Shows(r.x - 3, (v \div 4096) % 16)
           /\ {<<t.x, t.y>> : t \in cells.drawn}
                 \subseteq UNION {FieldCells(rp[i]) : i \in 1..Len(rp)}
           /\ {<<t.x, t.y>> : t \in cells.drawn}
                 \cap UNION {LabelCells(rp[i]) : i \in 1..Len(rp)} = {}

C20_Witness ==
    /\ cells.done
    /\ cells.table = "regs_z80"
    /\ regs_z80[cells.i].type = "RB"
    /\ cells.v = 63
    /\ [x |-> regs_z80[cells.i].x - 1, y |-> regs_z80[cells.i].y, c |-> 51]
           \in cells.drawn
    /\ [x |-> regs_z80[cells.i].x, y |-> regs_z80[cells.i].y, c |-> 70]
           \in cells.drawn

(***************************************************************************)
(* Paint_DrawChar (src/lcd/GUI/GUI_DrawChar.c).  A font is a record with   *)
(* Width, Height and table of sFONT, the table a sequence of bytes that    *)
(* begins with the glyph of ' '.  Paint_SetPixel is not in this file: it   *)
(* is taken to give the pixel it is called for the colour it is called     *)
(* with.  A byte read outside the table of the font (a character below     *)
(* ' ' or beyond the last glyph) is anything: paint.junk.  paint.image is  *)
(* the colour of every pixel, 0 where nothing was drawn.                   *)
(***************************************************************************)
\* line 25 with > in place of >=
PaintRejected_beyond(Xpoint, Ypoint) ==
    Xpoint > PaintWidth \/ Ypoint > PaintHeight

\* line 25: Xpoint >= Paint.Width || Ypoint >= Paint.Height
PaintRejected(Xpoint, Ypoint) ==
    Xpoint >= PaintWidth \/ Ypoint >= PaintHeight

\* the mask with the least significant bit first
GlyphMask_lsb_first(Column) == 2 ^ (Column % 8)

\* line 40: 0x80 >> (Column % 8)
GlyphMask(Column) == 2 ^ (7 - (Column % 8))

\* Paint_SetPixel(Xpoint, Ypoint, Color), with UWORD coordinates
Paint_SetPixel(image, Xpoint, Ypoint, Color) ==
    [image EXCEPT ![<<Xpoint % UINT16_MOD, Ypoint % UINT16_MOD>>] = Color]

\* no byte skipped after a row
GlyphRowSkip_none(Font) == 0

\* lines 61-62: if (Font->Width % 8 != 0) ptr++
GlyphRowSkip(Font) == IF Font.Width % 8 # 0 THEN 1 ELSE 0

\* lines 35-63: the two loops from Page, Column on, ptr an index into
\* Font->table counted from 0; out.image holds the pixels, out.rows the
\* value of ptr after each row
RECURSIVE Paint_DrawChar(_, _, _, _, _, _, _, _, _, _)
Paint_DrawChar(out, Xpoint, Ypoint, Font, fg, bg, junk, Page, Column, ptr) ==
    IF Page >= Font.Height THEN out
    ELSE IF Column >= Font.Width
    THEN Paint_DrawChar([out EXCEPT
                             !.rows = Append(@, ptr + GlyphRowSkip(Font))],
                        Xpoint, Ypoint, Font, fg, bg, junk, Page + 1,
                        0, ptr + GlyphRowSkip(Font))
    ELSE LET byte == IF ptr >= 0 /\ ptr < Len(Font.table)
                     THEN Font.table[ptr + 1] ELSE junk
             bit == (byte \div GlyphMask(Column)) % 2
         IN Paint_DrawChar([out EXCEPT
                                !.image =
                                    Paint_SetPixel(@, Xpoint + Column,
                                                   Ypoint + Page,
                                                   IF bit # 0 THEN fg
                                                   ELSE bg)],
                           Xpoint, Ypoint, Font, fg, bg, junk, Page,
                           Column + 1,
                           IF Column % 8 = 7 THEN ptr + 1 ELSE ptr)

\* One call Paint_DrawChar(Xpoint, Ypoint, Acsii_Char, Font, fg, bg) on the
\* image nothing was drawn into; lines 31-33 give the first ptr.
PaintNext ==
    /\ ~paint.done
    /\ \E Xpoint \in 0..(PaintWidth + 1), Ypoint \in 0..(PaintHeight + 1),
          Acsii_Char \in 31..34, Font \in GlyphFonts,
          fg \in {1, 2}, junk \in {0, 165, 255} :
          LET bg == 3 - fg
              Char_Offset ==
                  (Acsii_Char - 32) * Font.Height
                      * (Font.Width \div 8
                             + (IF Font.Width % 8 # 0 THEN 1 ELSE 0))
              out == IF PaintRejected(Xpoint, Ypoint)
                     THEN [image |-> paint.image, rows |-> <<>>]
                     ELSE Paint_DrawChar([image |-> paint.image,
                                          rows |-> <<>>],
                                         Xpoint, Ypoint, Font, fg, bg, junk,
                                         0, 0, Char_Offset)
          IN paint' =
                 [done |-> TRUE, rejected |-> PaintRejected(Xpoint, Ypoint),
                  X |-> Xpoint, Y |-> Ypoint, ch |-> Acsii_Char,
                  font |-> Font, fg |-> fg, bg |-> bg, junk |-> junk,
                  image |-> out.image, offset |-> Char_Offset,
                  rows |-> out.rows]
    /\ UNCHANGED <<chan_vars, lcd_task_done, lcd_frame_cnt, core0_vars,
                   task_vars, dev_vars, iter_vars, written, panel_hist,
                   lcd_drives, upd, drive_hist, port_vars, pace_vars,
                   info_vars, reg_vars, lcd_pixmap, mem, disk_vars>>

SpecGlyph == Init /\ [][PaintNext]_vars

\* C21: Paint_DrawChar called with Xpoint >= Paint.Width or
\* Ypoint >= Paint.Height returns with every pixel as it was (none of the
\* image, none beyond it, none of the row below); called with
\* Xpoint = Paint.Width - 1, Ypoint = Paint.Height - 1 and a font of one
\* pixel it gives that pixel the colour of the glyph bit and no other
\* pixel any.
C21_BoundsRejection ==
    paint.done =>
        /\ (paint.X >= PaintWidth \/ paint.Y >= PaintHeight) =>
              paint.image = NoPaint.image
        /\ (/\ paint.X = PaintWidth - 1
            /\ paint.Y = PaintHeight - 1
            /\ paint.font.Width = 1
            /\ paint.font.Height = 1) =>
              /\ paint.image[<<paint.X, paint.Y>>] \in {paint.fg, paint.bg}
              /\ \A q \in PaintPlane \ {<<paint.X, paint.Y>>} :
                    paint.image[q] = 0

C21_Witness ==
    /\ paint.done
    /\ paint.X = PaintWidth
    /\ paint.Y = 0
    /\ paint.font.Width = 9
    /\ paint.ch = 33
    /\ paint.image = NoPaint.image

\* bit Column of row Page of the glyph of a character: a glyph is Height
\* rows of ceil(Width / 8) bytes, the most significant bit first
GlyphBit(Font, Acsii_Char, Column, Page, junk) ==
    LET row_bytes == (Font.Width + 7) \div 8
        at == ((Acsii_Char - 32) * Font.Height + Page) * row_bytes
                  + (Column \div 8)
        byte == IF at >= 0 /\ at < Len(Font.table)
                THEN Font.table[at + 1] ELSE junk
    IN (byte \div (2 ^ (7 - (Column % 8)))) % 2

\* C22: an accepted call Paint_DrawChar(Xpoint, Ypoint, c, Font, fg, bg)
\* gives every pixel of the rectangle of Font.Width columns from Xpoint
\* and Font.Height rows from Ypoint the colour fg where the bit of the
\* glyph is set and bg where it is not, whatever colour the pixel had, and
\* leaves every other pixel as it was.
C22_GlyphOpacity ==
    (paint.done /\ paint.X < PaintWidth /\ paint.Y < PaintHeight) =>
        \A q \in PaintPlane :
            paint.image[q] =
                IF /\ q[1] >= paint.X
                   /\ q[1] < paint.X + paint.font.Width
                   /\ q[2] >= paint.Y
                   /\ q[2] < paint.Y + paint.font.Height
                THEN IF GlyphBit(paint.font, paint.ch, q[1] - paint.X,
                                 q[2] - paint.Y, paint.junk) = 1
                     THEN paint.fg ELSE paint.bg
                ELSE 0

C22_Witness ==
    /\ paint.done
    /\ paint.X = 1
    /\ paint.Y = 1
    /\ paint.font.Width = 9
    /\ paint.ch = 33
    /\ paint.image[<<1, 1>>] = paint.fg
    /\ paint.image[<<2, 1>>] = paint.bg
    /\ paint.image[<<9, 1>>] = paint.fg
    /\ paint.image[<<1, 2>>] = paint.bg
    /\ paint.image[<<2, 2>>] = paint.fg
    /\ paint.image[<<9, 2>>] = paint.bg
    /\ paint.image[<<10, 1>>] = 0

\* C32: in an accepted call the read pointer stands, after each row of the
\* glyph, ceil(Width / 8) bytes behind where it stood before the row, so
\* after the i-th row i * ceil(Width / 8) bytes behind the first byte of
\* the glyph and after the last row at Height * ceil(Width / 8) bytes,
\* which is the first byte of the next character as line 31 computes it.
C32_RowPadding ==
    (paint.done /\ ~paint.rejected) =>
        LET row_bytes == (paint.font.Width + 7) \div 8
            glyph_bytes == paint.font.Height * row_bytes
        IN  /\ paint.font.Width >= 1
            /\ paint.offset = (paint.ch - 32) * glyph_bytes
            /\ Len(paint.rows) = paint.font.Height
            /\ \A i \in 1..Len(paint.rows) :
                   paint.rows[i] = paint.offset + i * row_bytes
            /\ paint.rows[paint.font.Height]
                   = (paint.ch + 1 - 32) * glyph_bytes

\* the second character of the font nine pixels wide and two high: two
\* bytes a row, from byte 4 to byte 8
C32_Witness ==
    /\ paint.done
    /\ ~paint.rejected
    /\ paint.font.Width = 9
    /\ paint.ch = 33
    /\ paint.offset = 4
    /\ paint.rows = <<6, 8>>

(***************************************************************************)
(* The pixmap.  lcd_pixmap is initialized statically; lcd_init hands its   *)
(* address to draw_set_pixmap (line 82) and lcd_task that of the current   *)
(* pixmap to lcd_dev_send_pixmap (line 152); lcd.c assigns none of its     *)
(* members.  COLOR_DEPTH is 12 or 16 (line 582).                           *)
(***************************************************************************)
SpecFrame ==
    /\ InitAnyDepth
    /\ [][InfoNext]_vars

\* C25: with colour depth 12 the stride of lcd_pixmap is
\* ((width + 1) div 2) * 3 and with depth 16 it is width * 2; pixmap_bits
\* has height * stride bytes; and no step of lcd_task, of a draw function
\* or of core 0 changes depth, width, height or stride.
C25_FrameGeometry ==
    /\ [](/\ lcd_pixmap.depth \in {12, 16}
          /\ lcd_pixmap.stride =
                 IF lcd_pixmap.depth = 12
                 THEN ((lcd_pixmap.width + 1) \div 2) * 3
                 ELSE lcd_pixmap.width * 2
          /\ lcd_pixmap.bits = lcd_pixmap.height * lcd_pixmap.stride)
    /\ [][lcd_pixmap' = lcd_pixmap]_vars

C25_Witness ==
    /\ lcd_pixmap.depth = 12
    /\ lcd_pixmap.stride = ((WAVESHARE_GEEK_LCD_WIDTH + 1) \div 2) * 3
    /\ info.kind = "dynamic"
    /\ last_drawn = "lcd_draw_drives"
    /\ lcd_led_color = C_RED
    /\ U32_Low(lcd_frame_cnt) >= 2

(***************************************************************************)
(* The memory panel, lcd.c 578-639.  A word of a bank is the pair          *)
(* <<high 16 bits, low 16 bits>> of the uint32_t the renderer reads.       *)
(***************************************************************************)
MEM_XOFF == 3
MEM_YOFF == 0
MEM_BRDR == 3

\* 2654435769U, lines 619-634
GOLDEN == <<40503, 31161>>

\* x * y mod 2^16 for x, y < 2^16, by the bytes of x
MulMod16(x, y) ==
    ((((x \div 256) * y) % 256) * 256 + (((x % 256) * y) % UINT16_MOD))
        % UINT16_MOD

\* the low bits of the product in place of the top ones
MemHash_low_bits(word, depth) ==
    LET low == (word[2] * GOLDEN[2]) % UINT16_MOD
    IN  IF depth = 12 THEN low % 4096 ELSE low

\* lines 619, 621: (*p * 2654435769U) >> 20 with COLOR_DEPTH 12 and
\* (*p * 2654435769U) >> 16 otherwise, the product being one of uint32_t
MemHash(word, depth) ==
    LET top == (MulMod16(word[1], GOLDEN[2]) + MulMod16(word[2], GOLDEN[1])
                + ((word[2] * GOLDEN[2]) \div UINT16_MOD)) % UINT16_MOD
    IN  IF depth = 12 THEN top \div 16 ELSE top

\* the pixels of the two blocks: lines 613-616 and 627-630
MemBlock0 ==
    ((MEM_XOFF + MEM_BRDR)..(MEM_XOFF + MEM_BRDR + Bnk0Cols - 1))
        \X ((MEM_YOFF + MEM_BRDR)..(MEM_YOFF + MEM_BRDR + MemRows - 1))

MemBlock1 ==
    ((MEM_XOFF + 3 * MEM_BRDR - 1 + Bnk0Cols)
         ..(MEM_XOFF + 3 * MEM_BRDR - 1 + Bnk0Cols + Bnk1Cols - 1))
        \X ((MEM_YOFF + MEM_BRDR)..(MEM_YOFF + MEM_BRDR + MemRows - 1))

\* lines 600-608: the cells of the two horizontal and three vertical lines
MemLines ==
    LET draw_hline(x, y, w) == {<<x + i, y>> : i \in 0..(w - 1)}
        draw_vline(x, y, h) == {<<x, y + i>> : i \in 0..(h - 1)}
    IN  draw_hline(MEM_XOFF, MEM_YOFF, Bnk0Cols + Bnk1Cols + 4 * MEM_BRDR - 1)
        \cup draw_hline(MEM_XOFF, MEM_YOFF + MemRows + 2 * MEM_BRDR - 1,
                        Bnk0Cols + Bnk1Cols + 4 * MEM_BRDR - 1)
        \cup draw_vline(MEM_XOFF, MEM_YOFF, MemRows + 2 * MEM_BRDR)
        \cup draw_vline(MEM_XOFF + Bnk0Cols + 2 * MEM_BRDR - 1, 0,
                        MemRows + 2 * MEM_BRDR)
        \cup draw_vline(MEM_XOFF + Bnk0Cols + Bnk1Cols + 4 * MEM_BRDR - 2, 0,
                        MemRows + 2 * MEM_BRDR)

\* lines 590-639: lcd_draw_memory(is_first), the banks holding b0 and b1.  The
\* pointer p advances with y in the inner loop and x in the outer one.
lcd_draw_memory(is_first, b0, b1) ==
    LET depth == lcd_pixmap.depth
        word0(c) == b0[(c[1] - (MEM_XOFF + MEM_BRDR)) * MemRows
                           + (c[2] - (MEM_YOFF + MEM_BRDR)) + 1]
        word1(c) == b1[(c[1] - (MEM_XOFF + 3 * MEM_BRDR - 1 + Bnk0Cols))
                               * MemRows
                           + (c[2] - (MEM_YOFF + MEM_BRDR)) + 1]
        shown == [kind |-> mem.kind, bnk0 |-> mem.bnk0, bnk1 |-> mem.bnk1,
                  pix |-> mem.pix]
    IN  mem' =
            IF is_first
            THEN [mem EXCEPT !.kind = "static", !.pix = <<>>,
                             !.lines = MemLines, !.prev = shown]
            ELSE [kind |-> "dynamic", bnk0 |-> b0, bnk1 |-> b1,
                  pix |-> [c \in MemBlock0 \cup MemBlock1 |->
                               IF c \in MemBlock0
                               THEN MemHash(word0(c), depth)
                               ELSE MemHash(word1(c), depth)],
                  lines |-> mem.lines,
                  frames |-> mem.frames + 1,
                  prev |-> shown]

\* words the banks are given: 0, 0x144CBC89 (the inverse of the multiplier
\* mod 2^32), 0xBC890000 and 0xFFFFFFFF
MemWords == {<<0, 0>>, <<5196, 48265>>, <<48265, 0>>, <<65535, 65535>>}

\* lcd_task shows the memory panel: the first call draws the static content,
\* each later one the blocks, core 0 having stored at most one word in the
\* banks since the call before
MemNext ==
    /\ \/ /\ mem.kind = "none"
          /\ lcd_draw_memory(TRUE, mem.bnk0, mem.bnk1)
       \/ /\ mem.kind # "none"
          /\ mem.frames < MaxMemFrames
          /\ \E i \in DOMAIN mem.bnk0, word \in MemWords :
                 lcd_draw_memory(FALSE, [mem.bnk0 EXCEPT ![i] = word],
                                 mem.bnk1)
       \/ /\ mem.kind # "none"
          /\ mem.frames < MaxMemFrames
          /\ \E i \in DOMAIN mem.bnk1, word \in MemWords :
                 lcd_draw_memory(FALSE, mem.bnk0,
                                 [mem.bnk1 EXCEPT ![i] = word])
    /\ UNCHANGED <<chan_vars, lcd_task_done, lcd_frame_cnt, core0_vars,
                   task_vars, dev_vars, iter_vars, written, panel_hist,
                   lcd_drives, upd, drive_hist, port_vars, pace_vars,
                   info_vars, reg_vars, paint, lcd_pixmap,
                   disk_vars>>

SpecMem ==
    /\ InitAnyDepth
    /\ [][MemNext]_vars

\* the positions of bank b at which the latest two calls read different
\* words, and the pixels they drew differently
MemChanged0 == {i \in DOMAIN mem.bnk0 : mem.bnk0[i] # mem.prev.bnk0[i]}
MemChanged1 == {i \in DOMAIN mem.bnk1 : mem.bnk1[i] # mem.prev.bnk1[i]}
MemDiffer == {c \in DOMAIN mem.pix : mem.pix[c] # mem.prev.pix[c]}
MemTwoFrames == mem.kind = "dynamic" /\ mem.prev.kind = "dynamic"

\* the pixel of word i (from 1) of the block that starts in column x0
MemPixelOf(x0, i) ==
    <<x0 + ((i - 1) \div MemRows), MEM_YOFF + MEM_BRDR + ((i - 1) % MemRows)>>

\* the top 16 and the top 12 bits of word * 2654435769 mod 2^32
MemColour(word, depth) ==
    LET top16 == CASE word = <<0, 0>> -> 0
                   [] word = <<5196, 48265>> -> 0
                   [] word = <<48265, 0>> -> 1
                   [] word = <<65535, 65535>> -> 25032
    IN  IF depth = 12 THEN top16 \div 16 ELSE top16

\* C23 as stated: two memory buffers that differ in exactly one word give
\* renderings that differ in exactly one pixel.
C23_OneWordOnePixel ==
    (MemTwoFrames /\ Cardinality(MemChanged0) + Cardinality(MemChanged1) = 1)
        => Cardinality(MemDiffer) = 1

\* C23, amended: the colour of a pixel is the top 12 (depth 12) or 16 bits
\* of its word * 2654435769 mod 2^32, so equal words give equal colours in
\* one rendering and in two; two buffers that differ in exactly one word
\* give renderings that differ in no pixel but the one of that word, and
\* in that one exactly when the top bits of the two products differ.
C23_HeatMap ==
    /\ mem.kind = "dynamic" =>
          /\ \A i \in DOMAIN mem.bnk0 :
                 mem.pix[MemPixelOf(MEM_XOFF + MEM_BRDR, i)]
                     = MemColour(mem.bnk0[i], lcd_pixmap.depth)
          /\ \A i \in DOMAIN mem.bnk1 :
                 mem.pix[MemPixelOf(MEM_XOFF + 3 * MEM_BRDR - 1 + Bnk0Cols, i)]
                     = MemColour(mem.bnk1[i], lcd_pixmap.depth)
    /\ MemTwoFrames =>
          /\ \A i \in DOMAIN mem.bnk0, j \in DOMAIN mem.bnk1 :
                 mem.bnk0[i] = mem.prev.bnk1[j] =>
                     mem.pix[MemPixelOf(MEM_XOFF + MEM_BRDR, i)]
                         = mem.prev.pix[MemPixelOf(MEM_XOFF + 3 * MEM_BRDR - 1
                                                       + Bnk0Cols, j)]
          /\ \A i \in MemChanged0 :
                 MemChanged0 \cup MemChanged1 = {i} =>
                     /\ MemDiffer \subseteq
                            {MemPixelOf(MEM_XOFF + MEM_BRDR, i)}
                     /\ MemDiffer = {} <=>
                            MemColour(mem.bnk0[i], lcd_pixmap.depth)
                                = MemColour(mem.prev.bnk0[i],
                                            lcd_pixmap.depth)
          /\ \A j \in MemChanged1 :
                 MemChanged0 = {} /\ MemChanged1 = {j} =>
                     /\ MemDiffer \subseteq
                            {MemPixelOf(MEM_XOFF + 3 * MEM_BRDR - 1
                                            + Bnk0Cols, j)}
                     /\ MemDiffer = {} <=>
                            MemColour(mem.bnk1[j], lcd_pixmap.depth)
                                = MemColour(mem.prev.bnk1[j],
                                            lcd_pixmap.depth)

\* the second word of the second bank went from 0x144CBC89 to 0xFFFFFFFF
\* between two renderings of depth 12, and one pixel differs
C23_Witness ==
    /\ MemTwoFrames
    /\ lcd_pixmap.depth = 12
    /\ MemChanged0 = {}
    /\ MemChanged1 = {2}
    /\ mem.prev.bnk1[2] = <<5196, 48265>>
    /\ mem.bnk1[2] = <<65535, 65535>>
    /\ Cardinality(MemDiffer) = 1
    /\ mem.pix[MemPixelOf(MEM_XOFF + 3 * MEM_BRDR - 1 + Bnk0Cols, 2)] = 1564

(***************************************************************************)
(* The frame counter at its wrap.  The runs begin at lcd_init and          *)
(* MaxAccessFrames frames before lcd_frame_cnt wraps from 2^32 - 1 to 0;   *)
(* core 0 selects the Drives panel at any time and calls lcd_update_drive  *)
(* in the first frames; lcd_task draws until the idle time of the drive is *)
(* over.  drive_hist.stamped tells that lcd_update_drive has stored        *)
(* lastacc, drive_hist.age counts the statements lcd_frame_cnt++ executed  *)
(* since it did, as a number that does not wrap.                           *)
(***************************************************************************)
WrapStart == <<UINT16_MOD - 1, UINT16_MOD - MaxAccessFrames>>

SpecWrap ==
    /\ \/ Init
       \/ AfterFrames(WrapStart)
    /\ [][\/ upd.pc = "idle" /\ Plain(lcd_status_disp("LCD_STATUS_DRIVES"))
          \/ /\ ~U32_AtLeast(U32_Sub(lcd_frame_cnt, WrapStart),
                             2 * MaxAccessFrames)
             /\ lcd_update_drive_fields(7, 1, 128, TRUE, TRUE)
             /\ drive_hist' = [drive_hist EXCEPT !.accessed = TRUE,
                                                 !.sector = 1,
                                                 !.drawn = "none",
                                                 !.blanks = 0]
             /\ UNCHANGED <<written, panel_hist, port_vars, tail_vars>>
          \/ /\ lcd_update_drive_lastacc
             /\ drive_hist' = [drive_hist EXCEPT !.drawn = "none",
                                                 !.blanks = 0,
                                                 !.stamped = TRUE,
                                                 !.age = 0]
             /\ UNCHANGED <<written, panel_hist, port_vars, tail_vars>>
          \/ /\ lcd_update_drive_led
             /\ drive_hist' = [drive_hist EXCEPT !.drawn = "none",
                                                 !.blanks = 0]
             /\ UNCHANGED <<written, panel_hist, port_vars, tail_vars>>
          \/ Plain(lcd_task_init)
          \/ /\ \/ ~U32_AtLeast(U32_Sub(lcd_frame_cnt, WrapStart),
                                DRIVE_IDLE_FRAMES + 2 * MaxAccessFrames + 1)
                \/ main_pc # "run"
             /\ Plain(lcd_task_start)
          \/ Plain(lcd_task_check_exit)
          \/ Plain(lcd_task_check_backlight)
          \/ Plain(lcd_task_check_rotation)
          \/ Plain(lcd_task_check_func)
          \/ /\ lcd_task_draw
             /\ IF draw_func = "lcd_draw_drives"
                THEN /\ lcd_draw_drives(first)
                     /\ lcd_draw_info(first)
                     /\ drive_hist' =
                            [drive_hist EXCEPT
                                 !.drawn =
                                     IF first THEN "static"
                                     ELSE DriveDrawn(lcd_drives,
                                                     lcd_frame_cnt),
                                 !.at = lcd_frame_cnt,
                                 !.blanks =
                                     IF ~first /\ DriveIdle(lcd_drives,
                                                            lcd_frame_cnt)
                                     THEN IF @ < 3 THEN @ + 1 ELSE 3
                                     ELSE 0]
                     /\ LET values ==
                                ~first /\ InfoDue(lcd_frame_cnt, last_upd)
                        IN  info' =
                                [kind |-> IF first THEN "static"
                                          ELSE "dynamic",
                                 before |-> info.kind,
                                 values |-> values,
                                 led_drawn |-> ~first,
                                 led |-> IF first THEN info.led
                                         ELSE lcd_led_color,
                                 gap |-> IF first \/ values THEN 0
                                         ELSE info.gap + 1,
                                 gap_before |-> info.gap]
                ELSE UNCHANGED <<lcd_drives, drive_hist, info_vars>>
             /\ UNCHANGED <<upd, written, panel_hist, port_vars, pace_vars,
                            reg_vars, pix_vars, disk_vars>>
          \/ Plain(lcd_task_send)
          \/ /\ lcd_task_count
             /\ drive_hist' = [drive_hist EXCEPT !.age = @ + 1]
             /\ UNCHANGED <<written, panel_hist, lcd_drives, upd, port_vars,
                            tail_vars>>
          \/ Plain(lcd_task_sleep)]_vars

\* C31: the test of line 898 finds a drive idle exactly when 10 * LCD_REFRESH
\* or more frames were counted since lcd_update_drive stored lastacc, also
\* when lcd_frame_cnt wrapped in between; lcd_draw_info with first stores
\* lcd_frame_cnt - LCD_REFRESH + 1 modulo 2^32, also when lcd_frame_cnt is
\* below LCD_REFRESH - 1, and the call without first in the next frame
\* draws the values; after that a call draws them exactly when LCD_REFRESH
\* frames were counted since the latest call that did.
C31_WrapSafe ==
    /\ [](drive_hist.stamped =>
              lcd_frame_cnt = U32_Add(lcd_drives.lastacc, drive_hist.age))
    /\ [][(/\ task_pc = "draw"
           /\ task_pc' # "draw"
           /\ draw_func = "lcd_draw_drives"
           /\ ~first
           /\ drive_hist.stamped) =>
              IF drive_hist.age >= DRIVE_IDLE_FRAMES
              THEN drive_hist'.drawn = "blank" /\ lcd_drives'.sector = 0
              ELSE /\ drive_hist'.drawn # "blank"
                   /\ lcd_drives'.sector = lcd_drives.sector]_vars
    /\ [][(/\ task_pc = "draw"
           /\ task_pc' # "draw"
           /\ draw_func = "lcd_draw_drives"
           /\ first) =>
              /\ last_upd' =
                     IF lcd_frame_cnt[2] >= LCD_REFRESH - 1
                     THEN <<lcd_frame_cnt[1],
                            lcd_frame_cnt[2] - LCD_REFRESH + 1>>
                     ELSE <<(lcd_frame_cnt[1] + UINT16_MOD - 1) % UINT16_MOD,
                            UINT16_MOD + lcd_frame_cnt[2] - LCD_REFRESH + 1>>
              /\ InfoDue(U32_Inc(lcd_frame_cnt), last_upd')
              /\ ~InfoDue(lcd_frame_cnt, last_upd')]_vars
    /\ [](info.kind = "dynamic" =>
              (info.values <=> \/ info.before = "static"
                               \/ info.gap_before = LCD_REFRESH - 1))

\* lcd_update_drive stored lastacc before the counter wrapped, and the
\* call of lcd_draw_drives 10 * LCD_REFRESH frames later, after the wrap,
\* was the first to find the drive idle
C31_Witness ==
    /\ drive_hist.stamped
    /\ lcd_drives.lastacc[1] = UINT16_MOD - 1
    /\ drive_hist.at[1] = 0
    /\ drive_hist.age = DRIVE_IDLE_FRAMES
    /\ drive_hist.drawn = "blank"
    /\ drive_hist.blanks = 1
    /\ drive_hist.sector = 1
    /\ lcd_drives.sector = 0
    /\ info.kind = "dynamic"

(***************************************************************************)
(* mount_disk (memsim.c 131-157): the drive table.  The name is one the    *)
(* short file name buffer holds (at most 8 characters) and the drive is    *)
(* one of the four of the table; whether f_open finds the file on the card *)
(* is an input.                                                            *)
(***************************************************************************)

\* image names on the card
DiskNames == {"CPM22", "CPM3", "MPM"}

\* the same without the test of lines 140-145: every image that opens is
\* recorded
mount_disk_no_check(drive, name, opened) ==
    LET SFN == <<"/DISKS80/", name, ".DSK">>
        result == IF ~opened THEN "noopen" ELSE "mounted"
    IN /\ disks' = IF result = "mounted"
                      THEN [disks EXCEPT ![drive] = SFN]
                      ELSE disks
       /\ mount_hist' = [calls |-> mount_hist.calls + 1, drive |-> drive,
                         name |-> name, opened |-> opened,
                         result |-> result, before |-> disks]

\* lines 136-138 build the path; lines 140-145 return when another drive
\* holds it; lines 148-152 return when the file does not open; line 155
\* records the path for the drive
mount_disk(drive, name, opened) ==
    LET SFN == <<"/DISKS80/", name, ".DSK">>
        result ==
            IF \E i \in MountDrives : i # drive /\ disks[i] = SFN
                THEN "already"
            ELSE IF ~opened THEN "noopen"
            ELSE "mounted"
    IN /\ disks' = IF result = "mounted"
                      THEN [disks EXCEPT ![drive] = SFN]
                      ELSE disks
       /\ mount_hist' = [calls |-> mount_hist.calls + 1, drive |-> drive,
                         name |-> name, opened |-> opened,
                         result |-> result, before |-> disks]

SpecMount ==
    Init /\ [][ /\ mount_hist.calls < MaxMounts
                /\ \E drive \in MountDrives, name \in DiskNames,
                      opened \in BOOLEAN :
                       mount_disk(drive, name, opened)
                /\ UNCHANGED <<chan_vars, lcd_task_done, lcd_frame_cnt,
                               core0_vars, task_vars, dev_vars, iter_vars,
                               written, panel_hist, lcd_drives, upd,
                               drive_hist, port_vars, pace_vars, info_vars,
                               reg_vars, pix_vars>> ]_vars

\* C33: after any sequence of mount_disk calls no image path is recorded
\* for two drives; a call that fails, because another drive holds the image
\* or because the file does not open, leaves every drive's record as it
\* was; a call that names the image its own drive holds is accepted when
\* the file opens, and a call that succeeds changes the record of its
\* drive only.
C33_NoDuplicates ==
    /\ [](\A i, j \in MountDrives :
             (i # j /\ disks[i] # <<>>) => disks[i] # disks[j])
    /\ [](LET h == mount_hist
              path == <<"/DISKS80/", h.name, ".DSK">>
              elsewhere == \E i \in MountDrives \ {h.drive} :
                               h.before[i] = path
          IN (h.calls > 0) =>
                 /\ (elsewhere \/ ~h.opened) <=> (h.result # "mounted")
                 /\ (h.result # "mounted") => (disks = h.before)
                 /\ (h.result = "mounted") =>
                        /\ disks[h.drive] = path
                        /\ \A i \in MountDrives \ {h.drive} :
                               disks[i] = h.before[i]
                 /\ (h.before[h.drive] = path /\ h.opened) =>
                        (h.result = "mounted" /\ disks = h.before))

\* a call whose file opens is refused because another drive holds the
\* image, with two drives mounted and one still empty
C33_Witness ==
    /\ mount_hist.result = "already"
    /\ mount_hist.opened
    /\ disks = mount_hist.before
    /\ \E i \in MountDrives \ {mount_hist.drive} :
           disks[i] = <<"/DISKS80/", mount_hist.name, ".DSK">>
    /\ \E i \in MountDrives : disks[i] = <<>>
    /\ \E i, j \in MountDrives : i # j /\ disks[i] # <<>> /\ disks[j] # <<>>

====
